---- MODULE Spec2Model ----
(***************************************************************************)
(* LUMIX backend: users / authentication / password reset, reviews and     *)
(* favorites over a document store.  Every handler is split at the awaits  *)
(* that touch the store, so that the requests of different clients         *)
(* interleave exactly where the event loop lets them.                      *)
(***************************************************************************)
EXTENDS Integers, Sequences, FiniteSets, TLC

VARIABLES
  env,          \* process.env: MONGO_URI, JWT_SECRET, COOKIE_CONTROL, NODE_ENV
  now,          \* Date.now(), in milliseconds since the process started
  users,        \* the users collection: a set of user documents
  nextUserId,   \* the next fresh _id of the users collection
  req,          \* per client: the request in flight, parked at an await
  cookie,       \* per client: the `token` cookie of its cookie jar
  inbox,        \* reset tokens delivered by e-mail (what a client can present)
  resp,         \* the last HTTP response sent
  registered,   \* history: emails for which a register was answered 201
  usedResets,   \* history: <<email, token>> pairs of resets answered 200
  reviews,      \* the reviews collection
  nextReviewId, \* the next fresh _id of the reviews collection
  favorites,    \* the favorites collection
  nextFavId,    \* the next fresh _id of the favorites collection
  reviewed,     \* history: <<userId, movieId>> pairs whose create was answered 201
  movies,       \* the movies collection (the catalog)
  nextMovieId,  \* the next fresh _id of the movies collection
  ingest,       \* per client: its catalog ingestion request in flight
  session,      \* history, per client: its last successful login (with the
                \* token it issued) or logout
  proc          \* the server process: loading, listening for requests, or exited

userVars   == <<env, now, users, nextUserId, req, cookie, inbox, resp,
                registered, usedResets>>
reviewVars == <<reviews, nextReviewId, favorites, nextFavId, reviewed>>
catalogVars == <<movies, nextMovieId, ingest>>
vars       == <<env, now, users, nextUserId, req, cookie, inbox, resp,
                registered, usedResets,
                reviews, nextReviewId, favorites, nextFavId, reviewed,
                movies, nextMovieId, ingest, session, proc>>

(***************************************************************************)
(* Bounds of the model.                                                    *)
(***************************************************************************)
NumClients  == 2   \* concurrent HTTP clients
MaxUsers    == 2   \* user _ids ever allocated
MaxHours    == 2   \* the clock covers MaxHours whole hours ...
MaxHalfSecs == 1   \* ... plus MaxHalfSecs half seconds
MaxVideos   == 2   \* videos in one answer of the Pexels service
MaxMovies   == 4   \* movie _ids ever allocated

Clients == 1..NumClients

(***************************************************************************)
(* Program constants.                                                      *)
(***************************************************************************)
ResetLifetimeMs  == 3600000   \* Date.now() + 3600000
ResetJwtSeconds  == 3600      \* expiresIn: '1h'
LoginJwtSeconds  == 7200      \* expiresIn: '2h'
MinPasswordLen   == 8         \* {8,} of passwordRegex
MinAge           == 13        \* age: { min: 13 }
MsPerSecond      == 1000      \* jsonwebtoken: Math.floor(Date.now() / 1000)
HourMs           == 60 * 60 * MsPerSecond
HalfSecMs        == MsPerSecond \div 2

Times == { h * HourMs + k * HalfSecMs : h \in 0..MaxHours, k \in 0..MaxHalfSecs }

(***************************************************************************)
(* Passwords are sequences of characters.                                  *)
(***************************************************************************)
Upper   == {"A","B","C","D","E","F","G","H","I","J","K","L","M",
            "N","O","P","Q","R","S","T","U","V","W","X","Y","Z"}
Lower   == {"a","b","c","d","e","f","g","h","i","j","k","l","m",
            "n","o","p","q","r","s","t","u","v","w","x","y","z"}
Digit   == {"0","1","2","3","4","5","6","7","8","9"}
Special == {"!","@","#","$","%","^","&","*","(",")","_","+","-","=","[","]",
            "{","}",";","'",":","\"","\\","|",",",".","<",">","/","?"}

\* the character class [A-Za-z\d!@#$%^&*()_+\-=\[\]{};':"\\|,.<>\/?] of passwordRegex
Allowed == Upper \cup Lower \cup Digit \cup Special

\* passwordRegexTest with the digit lookahead (?=.*\d) left out
passwordRegexTest_noDigit(pw) ==
  /\ \E i \in 1..Len(pw) : pw[i] \in Upper
  /\ \E i \in 1..Len(pw) : pw[i] \in Special
  /\ \A i \in 1..Len(pw) : pw[i] \in Allowed
  /\ Len(pw) >= MinPasswordLen

\* passwordRegex.test(pw):
\* /^(?=.*[A-Z])(?=.*\d)(?=.*[special])[A-Za-z\d special]{8,}$/
passwordRegexTest(pw) ==
  /\ \E i \in 1..Len(pw) : pw[i] \in Upper
  /\ \E i \in 1..Len(pw) : pw[i] \in Digit
  /\ \E i \in 1..Len(pw) : pw[i] \in Special
  /\ \A i \in 1..Len(pw) : pw[i] \in Allowed
  /\ Len(pw) >= MinPasswordLen

MsgMismatch == "La contraseña y la confirmación de contraseña no coinciden"
MsgInvalid  == "La contraseña no es válida"
NoError     == "null"

\* UserController.passwordValidation: the error message, or null
passwordValidation(password, confirmPassword) ==
  IF password # confirmPassword THEN MsgMismatch
  ELSE IF ~passwordRegexTest(password) THEN MsgInvalid
  ELSE NoError

(***************************************************************************)
(* Tokens.  jsonwebtoken signs {userId, iat, exp} with the secret; two     *)
(* tokens signed for the same user in the same second with the same        *)
(* lifetime are the same string.                                           *)
(***************************************************************************)
Secret  == "s3cret"
Unset   == ""
NoToken == [userId |-> 0, iat |-> 0, exp |-> 0, sig |-> "none"]
Garbage == [userId |-> 0, iat |-> 0, exp |-> 0, sig |-> "malformed"]

\* jwt.sign({ userId }, secret, { expiresIn }) at time t
jwtSign(userId, secret, seconds, t) ==
  [userId |-> userId, iat |-> t \div MsPerSecond,
   exp |-> (t \div MsPerSecond) + seconds, sig |-> secret]

\* jwtVerify comparing Date.now() in milliseconds with exp in seconds
jwtVerify_ms(token, secret, t) ==
  /\ token.sig = secret
  /\ t < token.exp

\* jwt.verify(token, secret) at time t does not throw
jwtVerify(token, secret, t) ==
  /\ token.sig = secret
  /\ (t \div MsPerSecond) < token.exp

MsgNoToken  == "No se proporcionó token de autenticación"
MsgBadToken == "Token inválido o expirado"

\* an authenticateToken that reads the payload (jwt.decode) without verifying
authenticateToken_decode(token, t) ==
  IF token = NoToken
  THEN [next |-> FALSE, status |-> 401, msg |-> MsgNoToken, userId |-> 0]
  ELSE [next |-> TRUE, status |-> 0, msg |-> "", userId |-> token.userId]

\* authenticateToken: next() with req.userId, or a 401
authenticateToken(token, t) ==
  IF token = NoToken
  THEN [next |-> FALSE, status |-> 401, msg |-> MsgNoToken, userId |-> 0]
  ELSE IF env.JWT_SECRET = Unset \/ ~jwtVerify(token, env.JWT_SECRET, t)
  THEN [next |-> FALSE, status |-> 401, msg |-> MsgBadToken, userId |-> 0]
  ELSE [next |-> TRUE, status |-> 0, msg |-> "", userId |-> token.userId]

(***************************************************************************)
(* Passwords are stored as bcrypt hashes.                                  *)
(***************************************************************************)
\* a hashPassword that stores the password as it came
hashPassword_plain(password) == [plain |-> password]

\* bcrypt.hash(password, 10)
hashPassword(password) == [bcrypt |-> password]

\* a compare that accepts every password
bcryptCompare_any(password, hash) == TRUE

\* bcrypt.compare(password, hash)
bcryptCompare(password, hash) == hash.bcrypt = password

(***************************************************************************)
(* The users collection and its data-access object.                        *)
(***************************************************************************)
NoDate == -1
NoDoc  == [id |-> 0, email |-> "", password |-> hashPassword(<<>>), age |-> 0,
           resetPasswordToken |-> NoToken, resetPasswordExpires |-> NoDate]

\* readByEmail querying a field no document has
readByEmail_none(emailToSearch) == NoDoc

\* UserDao.readByEmail
readByEmail(emailToSearch) ==
  IF \E u \in users : u.email = emailToSearch
  THEN CHOOSE u \in users : u.email = emailToSearch
  ELSE NoDoc

\* readByResetToken with the expiry compared by >= instead of $gt
readByResetToken_ge(email, token, t) ==
  LET match(u) == /\ u.email = email
                  /\ u.resetPasswordToken = token
                  /\ u.resetPasswordExpires # NoDate
                  /\ u.resetPasswordExpires >= t
  IN IF \E u \in users : match(u) THEN CHOOSE u \in users : match(u) ELSE NoDoc

\* a lookup by email and expiry that accepts whatever token is presented
readByResetToken_anyToken(email, token, t) ==
  LET match(u) == /\ u.email = email
                  /\ u.resetPasswordExpires # NoDate
                  /\ u.resetPasswordExpires > t
  IN IF \E u \in users : match(u) THEN CHOOSE u \in users : match(u) ELSE NoDoc

\* UserDao.readByResetToken
readByResetToken(email, token, t) ==
  LET match(u) == /\ u.email = email
                  /\ u.resetPasswordToken = token
                  /\ u.resetPasswordExpires # NoDate
                  /\ u.resetPasswordExpires > t
  IN IF \E u \in users : match(u) THEN CHOOSE u \in users : match(u) ELSE NoDoc

\* GlobalDao.read on users: the document, or NoDoc when it throws
userRead(id) ==
  IF \E u \in users : u.id = id THEN CHOOSE u \in users : u.id = id ELSE NoDoc

\* UserSchema validators (the stored bcrypt hash passes `match`)
userSchemaValid(doc) == doc.age >= MinAge /\ doc.email # ""

\* GlobalDao.create on users: how document.save() ends
userCreateOutcome(data) ==
  IF ~userSchemaValid(data) THEN "invalid"
  ELSE IF \E u \in users : u.email = data.email THEN "dup"
  ELSE "ok"

\* GlobalDao.update on a collection without the unique index on email
userUpdateOutcome_noIndex(id, doc) ==
  IF ~userSchemaValid(doc) THEN "invalid"
  ELSE IF ~\E u \in users : u.id = id THEN "notfound"
  ELSE "ok"

\* GlobalDao.update on users (findByIdAndUpdate with the whole document)
userUpdateOutcome(id, doc) ==
  IF ~userSchemaValid(doc) THEN "invalid"
  ELSE IF ~\E u \in users : u.id = id THEN "notfound"
  ELSE IF \E u \in users : u.id # id /\ u.email = doc.email THEN "dup"
  ELSE "ok"

\* the collection after a successful GlobalDao.update
userUpdated(id, doc) == { u \in users : u.id # id } \cup {[doc EXCEPT !.id = id]}

\* a delete that empties the collection
userDeleted_all(id) == {}

\* GlobalDao.delete on users
userDeleted(id) == { u \in users : u.id # id }

(***************************************************************************)
(* Inputs the clients send.                                                *)
(***************************************************************************)
Emails     == {"ana@lumix.co", "luz@lumix.co"}
PwGood1    == <<"A","b","c","d","e","f","1","!">>
PwGood2    == <<"Q","w","e","r","t","y","2","#","x">>
PwShort    == <<"A","b","c","d","1","!","x">>
PwNoUpper  == <<"a","b","c","d","e","f","1","!">>
PwNoDigit  == <<"A","b","c","d","e","f","g","!">>
PwNoSymbol == <<"A","b","c","d","e","f","1","2">>
PwTilde    == <<"A","b","c","d","e","f","1","!","~">>
Passwords  == {PwGood1, PwGood2, PwShort, PwNoUpper, PwNoDigit, PwNoSymbol, PwTilde}
BadPasswords == {PwShort, PwNoUpper, PwNoDigit, PwNoSymbol, PwTilde}

\* bodies of POST /users: valid ones, and one for each way of being invalid
RegisterBodies ==
  { [email |-> e, password |-> PwGood1, confirmPassword |-> PwGood1, age |-> 30] :
      e \in Emails }
  \cup { [email |-> "ana@lumix.co", password |-> p, confirmPassword |-> p, age |-> 30] :
      p \in BadPasswords }
  \cup { [email |-> "ana@lumix.co", password |-> PwGood1, confirmPassword |-> PwGood2,
         age |-> 30],
        [email |-> "luz@lumix.co", password |-> PwGood1, confirmPassword |-> PwGood1,
         age |-> 12] }

\* the password fields of POST /users/reset-password
ResetBodies ==
  { [password |-> p, confirmPassword |-> p] : p \in {PwGood1, PwGood2} \cup BadPasswords }
  \cup { [password |-> PwGood1, confirmPassword |-> PwGood2] }
LinkBodies ==
  { [password |-> PwGood2, confirmPassword |-> PwGood2],
    [password |-> PwGood2, confirmPassword |-> PwGood1] }
Forged     == [userId |-> 1, iat |-> 0, exp |-> LoginJwtSeconds, sig |-> "not-the-secret"]

(***************************************************************************)
(* Requests in flight and responses.  The field g of a request and of a    *)
(* response is history: what was true of the store when the handler        *)
(* started, stated independently of the handler's own lookups.             *)
(***************************************************************************)
NoGhost == [exists |-> FALSE, tokenLive |-> FALSE, tokenStored |-> FALSE,
            policyBad |-> FALSE, dup |-> FALSE, repeat |-> FALSE]

IdleSlot == [op |-> "none", email |-> "", password |-> <<>>,
             confirmPassword |-> <<>>, age |-> 0, hasEmail |-> FALSE,
             hasAge |-> FALSE, token |-> NoToken, userId |-> 0, id |-> 0,
             at |-> 0, doc |-> NoDoc, g |-> NoGhost]

Idle(c) == req[c].op = "none"

\* the part of a JSON body that is not the message: { movieId, average }
NoBody == [movieId |-> "", average |-> [num |-> 0, den |-> 1]]

\* the Set-Cookie header of a response: none, or the token cookie set or
\* cleared with these options
NoSetCookie == [kind |-> "none", httpOnly |-> FALSE, secure |-> FALSE, sameSite |-> ""]

\* thrown: the handler let an exception escape, and the answer is the one of
\* Express's final error handler
NoResp == [op |-> "none", status |-> 0, msg |-> "", userId |-> 0, body |-> NoBody,
           list |-> <<>>, setCookie |-> NoSetCookie, thrown |-> FALSE,
           g |-> NoGhost]

\* history of a client's session: its state after the last successful login
\* or logout, the clock second of that login and the token it was issued;
\* initially no login yet
NoSession == [state |-> "Anonymous", at |-> 0, token |-> NoToken]

\* no ingestion request of the client is in flight
NoIngest == [op |-> "none", phase |-> "idle", videos |-> <<>>, out |-> <<>>]

\* res.status(status).json({ message: msg }) ends the request of client c
Respond(c, op, status, msg, userId, g) ==
  /\ resp' = [NoResp EXCEPT !.op = op, !.status = status, !.msg = msg,
                            !.userId = userId, !.g = g]
  /\ req' = [req EXCEPT ![c] = IdleSlot]

\* res.status(status).json(body) ends the request of client c
RespondBody(c, op, status, body, g) ==
  /\ resp' = [NoResp EXCEPT !.op = op, !.status = status, !.body = body, !.g = g]
  /\ req' = [req EXCEPT ![c] = IdleSlot]

\* res.cookie / res.clearCookie, then res.status(status).json({ message: msg })
RespondCookie(c, op, status, msg, userId, g, setCookie) ==
  /\ resp' = [NoResp EXCEPT !.op = op, !.status = status, !.msg = msg,
                            !.userId = userId, !.g = g, !.setCookie = setCookie]
  /\ req' = [req EXCEPT ![c] = IdleSlot]

\* the handler awaits the store: client c's request stays in flight
Await(c, slot) ==
  /\ req' = [req EXCEPT ![c] = slot]
  /\ UNCHANGED resp

\* a step in which client c's idle slot starts handler `op`: the handler
\* either answers at once or parks at its first await
StepOf(c, op) ==
  /\ Idle(c)
  /\ \/ req' = req /\ resp'.op = op
     \/ req'[c].op = op

PendingCreates == Cardinality({ c \in Clients : req[c].op = "register" })

\* the password policy, as the specification words it
PolicyViolated(password, confirmPassword) ==
  \/ password # confirmPassword
  \/ Len(password) < 8
  \/ ~\E i \in 1..Len(password) : password[i] \in Upper
  \/ ~\E i \in 1..Len(password) : password[i] \in Digit
  \/ ~\E i \in 1..Len(password) : password[i] \in Special

HasUser(email) == \E u \in users : u.email = email

\* some user has this email, this stored reset token and an expiry after t
HasLiveToken(email, token, t) ==
  \E u \in users : /\ u.email = email
                   /\ u.resetPasswordToken = token
                   /\ u.resetPasswordExpires # NoDate
                   /\ u.resetPasswordExpires > t

MsgEmailInUse == "Correo electrónico ya en uso"
MsgInternal   == "Internal Server Error"

(***************************************************************************)
(* UserController.create (register).                                       *)
(***************************************************************************)
\* up to `await UserDAO.readByEmail` and the branch on its result
UserCreate_check(c, email, password, confirmPassword, age) ==
  /\ Idle(c)
  /\ LET passwordError == passwordValidation(password, confirmPassword)
         existingUser  == readByEmail(email)
         g == [NoGhost EXCEPT
                 !.exists = HasUser(email),
                 !.policyBad = PolicyViolated(password, confirmPassword),
                 !.repeat = /\ email \in registered
                            /\ ~PolicyViolated(password, confirmPassword)
                            /\ passwordRegexTest(password)
                            /\ age >= MinAge]
     IN IF passwordError # NoError
        THEN Respond(c, "register", 400, passwordError, 0, g)
        ELSE IF existingUser # NoDoc
        THEN Respond(c, "register", 409, MsgEmailInUse, 0, g)
        ELSE /\ nextUserId + PendingCreates <= MaxUsers
             /\ Await(c, [IdleSlot EXCEPT !.op = "register", !.email = email,
                            !.password = password, !.age = age, !.g = g])
  /\ UNCHANGED <<env, now, users, nextUserId, cookie, inbox, registered, usedResets>>
  /\ UNCHANGED reviewVars
  /\ UNCHANGED catalogVars
  /\ UNCHANGED proc
  /\ UNCHANGED session

\* hashPassword, then `await UserDAO.create(req.body)`
UserCreate_write(c) ==
  /\ req[c].op = "register"
  /\ LET data == [id |-> nextUserId, email |-> req[c].email,
                  password |-> hashPassword(req[c].password), age |-> req[c].age,
                  resetPasswordToken |-> NoToken, resetPasswordExpires |-> NoDate]
         outcome == userCreateOutcome(data)
     IN IF outcome = "ok"
        THEN /\ users' = users \cup {data}
             /\ nextUserId' = nextUserId + 1
             /\ registered' = registered \cup {data.email}
             /\ Respond(c, "register", 201, "", data.id, req[c].g)
        ELSE /\ UNCHANGED <<users, nextUserId, registered>>
             /\ Respond(c, "register", 500, MsgInternal, 0,
                        [req[c].g EXCEPT !.dup = (outcome = "dup")])
  /\ UNCHANGED <<env, now, cookie, inbox, usedResets>>
  /\ UNCHANGED reviewVars
  /\ UNCHANGED catalogVars
  /\ UNCHANGED proc
  /\ UNCHANGED session

(***************************************************************************)
(* UserController.login.                                                   *)
(***************************************************************************)
MsgBadLogin == "Correo electrónico o contraseña inválidos"
MsgLoggedOut == "Logged out successfully"
MsgCookieControl == "COOKIE_CONTROL no está definido en las variables de entorno"

\* { httpOnly: true, secure: process.env.NODE_ENV === 'production', sameSite }
cookieOptions(sameSite) ==
  [httpOnly |-> TRUE, secure |-> (env.NODE_ENV = "production"), sameSite |-> sameSite]

\* res.cookie('token', token, options)
setToken(options) ==
  [kind |-> "set", httpOnly |-> options.httpOnly, secure |-> options.secure,
   sameSite |-> options.sameSite]

\* res.clearCookie('token', options)
clearToken(options) ==
  [kind |-> "clear", httpOnly |-> options.httpOnly, secure |-> options.secure,
   sameSite |-> options.sameSite]

MsgLoginOk  == "Login successful"

\* `await UserDAO.readByEmail` and the 401 of an unknown email; with a user
\* the handler parks at `await bcrypt.compare`
UserLogin(c, email, password) ==
  /\ Idle(c)
  /\ LET user == readByEmail(email)
         g == [NoGhost EXCEPT !.exists = HasUser(email)]
     IN IF user = NoDoc
        THEN Respond(c, "login", 401, MsgBadLogin, 0, g)
        ELSE Await(c, [IdleSlot EXCEPT !.op = "login", !.email = email,
                         !.password = password, !.doc = user, !.g = g])
  /\ UNCHANGED <<env, now, users, nextUserId, cookie, inbox, registered, usedResets>>
  /\ UNCHANGED reviewVars
  /\ UNCHANGED catalogVars
  /\ UNCHANGED proc
  /\ UNCHANGED session

\* from the result of bcrypt.compare, taken with the document that was read,
\* to the response: jwt.sign at the time of this turn, res.cookie, 200
UserLogin_compare(c) ==
  /\ req[c].op = "login"
  /\ LET user == req[c].doc
         g == req[c].g
     IN IF ~bcryptCompare(req[c].password, user.password)
        THEN /\ Respond(c, "login", 401, MsgBadLogin, 0, g)
             /\ UNCHANGED <<cookie, session>>
        ELSE IF env.JWT_SECRET = Unset \/ env.COOKIE_CONTROL = Unset
        THEN /\ Respond(c, "login", 500, MsgInternal, 0, g)
             /\ UNCHANGED <<cookie, session>>
        ELSE /\ cookie' = [cookie EXCEPT ![c] =
                             jwtSign(user.id, env.JWT_SECRET, LoginJwtSeconds, now)]
             /\ session' = [session EXCEPT ![c] =
                              [state |-> "Authenticated", at |-> now \div MsPerSecond,
                               token |-> jwtSign(user.id, env.JWT_SECRET,
                                                 LoginJwtSeconds, now)]]
             /\ RespondCookie(c, "login", 200, MsgLoginOk, user.id, g,
                              setToken(cookieOptions(env.COOKIE_CONTROL)))
  /\ UNCHANGED <<env, now, users, nextUserId, inbox, registered, usedResets>>
  /\ UNCHANGED reviewVars
  /\ UNCHANGED catalogVars
  /\ UNCHANGED proc

\* UserController.logout: synchronous, without try/catch; the throw for an
\* unset COOKIE_CONTROL leaves the handler.  res.clearCookie only sends a
\* Set-Cookie header: whether the client's jar drops the cookie is not decided
\* by the program, so the jar afterwards holds no cookie or the same cookie
UserLogout(c) ==
  /\ Idle(c)
  /\ IF env.COOKIE_CONTROL = Unset
     THEN /\ resp' = [NoResp EXCEPT !.op = "logout", !.status = 500,
                                    !.msg = MsgCookieControl, !.thrown = TRUE]
          /\ req' = [req EXCEPT ![c] = IdleSlot]
          /\ UNCHANGED <<cookie, session>>
     ELSE /\ \E jar \in {NoToken, cookie[c]} :
               cookie' = [cookie EXCEPT ![c] = jar]
          /\ session' = [session EXCEPT ![c] =
                           [NoSession EXCEPT !.token = session[c].token]]
          /\ RespondCookie(c, "logout", 200, MsgLoggedOut, 0, NoGhost,
                           clearToken(cookieOptions(env.COOKIE_CONTROL)))
  /\ UNCHANGED <<env, now, users, nextUserId, inbox, registered, usedResets>>
  /\ UNCHANGED reviewVars
  /\ UNCHANGED catalogVars
  /\ UNCHANGED proc

(***************************************************************************)
(* UserController.forgotPassword.                                          *)
(***************************************************************************)
MsgForgotGeneric == "If the email is registered, you will receive a password reset email"
MsgForgotSent    == "Password reset email sent"

\* up to `await UserDAO.readByEmail`, the token and the expiry
UserForgot_read(c, email) ==
  /\ Idle(c)
  /\ LET user == readByEmail(email)
         g == [NoGhost EXCEPT !.exists = HasUser(email)]
     IN IF user = NoDoc
        THEN Respond(c, "forgot", 202, MsgForgotGeneric, 0, g)
        ELSE IF env.JWT_SECRET = Unset
        THEN Respond(c, "forgot", 500, MsgInternal, 0, g)
        ELSE LET token == jwtSign(user.id, env.JWT_SECRET, ResetJwtSeconds, now)
             IN Await(c, [IdleSlot EXCEPT !.op = "forgot", !.email = email,
                            !.token = token, !.g = g,
                            !.doc = [user EXCEPT
                                       !.resetPasswordToken = token,
                                       !.resetPasswordExpires = now + ResetLifetimeMs]])
  /\ UNCHANGED <<env, now, users, nextUserId, cookie, inbox, registered, usedResets>>
  /\ UNCHANGED reviewVars
  /\ UNCHANGED catalogVars
  /\ UNCHANGED proc
  /\ UNCHANGED session

\* `await UserDAO.update(user._id, user)`; once the token is stored the
\* handler builds the message and parks at `await sgMail.send(msg)`
UserForgot_write(c) ==
  /\ req[c].op = "forgot"
  /\ LET doc == req[c].doc
         outcome == userUpdateOutcome(doc.id, doc)
     IN IF outcome # "ok"
        THEN /\ UNCHANGED users
             /\ Respond(c, "forgot", 500, MsgInternal, 0,
                        [req[c].g EXCEPT !.dup = (outcome = "dup")])
        ELSE /\ users' = userUpdated(doc.id, doc)
             /\ Await(c, [req[c] EXCEPT !.op = "forgotMail"])
  /\ UNCHANGED <<env, now, nextUserId, cookie, inbox, registered, usedResets>>
  /\ UNCHANGED reviewVars
  /\ UNCHANGED catalogVars
  /\ UNCHANGED proc
  /\ UNCHANGED session

\* sgMail.send resolves (the mail with the token goes out, 200) or rejects
\* (500); the store is not consulted again
UserForgot_mail(c, mailOk) ==
  /\ req[c].op = "forgotMail"
  /\ IF mailOk
     THEN /\ inbox' = inbox \cup {req[c].token}
          /\ Respond(c, "forgot", 200, MsgForgotSent, 0, req[c].g)
     ELSE /\ UNCHANGED inbox
          /\ Respond(c, "forgot", 500, MsgInternal, 0, req[c].g)
  /\ UNCHANGED <<env, now, users, nextUserId, cookie, registered, usedResets>>
  /\ UNCHANGED reviewVars
  /\ UNCHANGED catalogVars
  /\ UNCHANGED proc
  /\ UNCHANGED session

(***************************************************************************)
(* UserController.resetPassword.                                           *)
(***************************************************************************)
MsgResetOk   == "Password has been reset successfully"
MsgTryLater  == "Inténtalo de nuevo más tarde"

\* the turn of the request: UserDao.readByResetToken builds its query, which
\* reads Date.now(), and parks at `await User.findOne(...).exec()`
UserReset_query(c, email, token, password, confirmPassword) ==
  /\ Idle(c)
  /\ Await(c, [IdleSlot EXCEPT !.op = "resetRead", !.email = email,
                  !.token = token, !.password = password,
                  !.confirmPassword = confirmPassword, !.at = now])
  /\ UNCHANGED <<env, now, users, nextUserId, cookie, inbox, registered, usedResets>>
  /\ UNCHANGED reviewVars
  /\ UNCHANGED catalogVars
  /\ UNCHANGED proc
  /\ UNCHANGED session

\* findOne answers the query built at req[c].at; then passwordValidation and
\* hashPassword, up to `await UserDAO.update`
UserReset_read(c) ==
  /\ req[c].op = "resetRead"
  /\ LET email == req[c].email
         token == req[c].token
         password == req[c].password
         confirmPassword == req[c].confirmPassword
         user  == readByResetToken(email, token, req[c].at)
         passwordError == passwordValidation(password, confirmPassword)
         g == [NoGhost EXCEPT
                 !.exists = HasUser(email),
                 !.tokenLive = HasLiveToken(email, token, req[c].at),
                 !.tokenStored = \E u \in users : /\ u.email = email
                                                  /\ token # NoToken
                                                  /\ u.resetPasswordToken = token,
                 !.policyBad = PolicyViolated(password, confirmPassword),
                 !.repeat = <<email, token>> \in usedResets]
     IN IF user = NoDoc
        THEN Respond(c, "reset", 400, MsgBadToken, 0, g)
        ELSE IF passwordError # NoError
        THEN Respond(c, "reset", 400, passwordError, 0, g)
        ELSE Await(c, [IdleSlot EXCEPT !.op = "reset", !.email = email,
                         !.token = token, !.g = g,
                         !.doc = [user EXCEPT
                                    !.password = hashPassword(password),
                                    !.resetPasswordToken = NoToken,
                                    !.resetPasswordExpires = NoDate]])
  /\ UNCHANGED <<env, now, users, nextUserId, cookie, inbox, registered, usedResets>>
  /\ UNCHANGED reviewVars
  /\ UNCHANGED catalogVars
  /\ UNCHANGED proc
  /\ UNCHANGED session

\* `await UserDAO.update(user._id, user)`
UserReset_write(c) ==
  /\ req[c].op = "reset"
  /\ LET doc == req[c].doc
         outcome == userUpdateOutcome(doc.id, doc)
     IN IF outcome # "ok"
        THEN /\ UNCHANGED <<users, usedResets>>
             /\ Respond(c, "reset", 500, MsgTryLater, 0,
                        [req[c].g EXCEPT !.dup = (outcome = "dup")])
        ELSE /\ users' = userUpdated(doc.id, doc)
             /\ usedResets' = usedResets \cup {<<req[c].email, req[c].token>>}
             /\ Respond(c, "reset", 200, MsgResetOk, doc.id, req[c].g)
  /\ UNCHANGED <<env, now, nextUserId, cookie, inbox, registered>>
  /\ UNCHANGED reviewVars
  /\ UNCHANGED catalogVars
  /\ UNCHANGED proc
  /\ UNCHANGED session

(***************************************************************************)
(* UserController.editLoggedUser, behind authenticateToken.                *)
(***************************************************************************)
MsgUserError == "Error getting user information"
MsgEdited    == "User information updated successfully"

\* the turn of the request: authenticateToken (jwt.verify), then the handler
\* up to `await UserDAO.read(userId)`
UserEdit_auth(c, presented, hasEmail, email, hasAge, age) ==
  /\ Idle(c)
  /\ LET auth == authenticateToken(presented, now)
     IN IF ~auth.next
        THEN Respond(c, "edit", auth.status, auth.msg, 0, NoGhost)
        ELSE Await(c, [IdleSlot EXCEPT !.op = "editRead", !.userId = auth.userId,
                         !.hasEmail = hasEmail, !.email = email,
                         !.hasAge = hasAge, !.age = age])
  /\ UNCHANGED <<env, now, users, nextUserId, cookie, inbox, registered, usedResets>>
  /\ UNCHANGED reviewVars
  /\ UNCHANGED catalogVars
  /\ UNCHANGED proc
  /\ UNCHANGED session

\* UserDAO.read answers; Object.assign(user, updates), up to
\* `await UserDAO.update`
UserEdit_read(c) ==
  /\ req[c].op = "editRead"
  /\ LET user == userRead(req[c].userId)
     IN IF user = NoDoc
        THEN Respond(c, "edit", 500, MsgUserError, req[c].userId, NoGhost)
        ELSE Await(c, [IdleSlot EXCEPT !.op = "edit",
                         !.doc = [user EXCEPT
                                    !.email = IF req[c].hasEmail THEN req[c].email ELSE @,
                                    !.age   = IF req[c].hasAge THEN req[c].age ELSE @]])
  /\ UNCHANGED <<env, now, users, nextUserId, cookie, inbox, registered, usedResets>>
  /\ UNCHANGED reviewVars
  /\ UNCHANGED catalogVars
  /\ UNCHANGED proc
  /\ UNCHANGED session

\* `await UserDAO.update(user._id, user)`
UserEdit_write(c) ==
  /\ req[c].op = "edit"
  /\ LET doc == req[c].doc
         outcome == userUpdateOutcome(doc.id, doc)
     IN IF outcome # "ok"
        THEN /\ UNCHANGED users
             /\ Respond(c, "edit", 500, MsgUserError, doc.id,
                        [NoGhost EXCEPT !.dup = (outcome = "dup")])
        ELSE /\ users' = userUpdated(doc.id, doc)
             /\ Respond(c, "edit", 200, MsgEdited, doc.id, NoGhost)
  /\ UNCHANGED <<env, now, nextUserId, cookie, inbox, registered, usedResets>>
  /\ UNCHANGED reviewVars
  /\ UNCHANGED catalogVars
  /\ UNCHANGED proc
  /\ UNCHANGED session

\* UserController.getLoggedUser, the turn of the request: authenticateToken
\* (jwt.verify), then the handler up to `await UserDAO.read(userId)`
UserGetLogged_auth(c, presented) ==
  /\ Idle(c)
  /\ LET auth == authenticateToken(presented, now)
     IN IF ~auth.next
        THEN Respond(c, "getLoggedUser", auth.status, auth.msg, 0, NoGhost)
        ELSE Await(c, [IdleSlot EXCEPT !.op = "getLoggedUser",
                         !.userId = auth.userId])
  /\ UNCHANGED <<env, now, users, nextUserId, cookie, inbox, registered, usedResets>>
  /\ UNCHANGED reviewVars
  /\ UNCHANGED catalogVars
  /\ UNCHANGED proc
  /\ UNCHANGED session

\* UserDAO.read answers (GlobalDao.read throws when findById finds nothing,
\* so the handler's own 404 branch is never taken)
UserGetLogged(c) ==
  /\ req[c].op = "getLoggedUser"
  /\ LET user == userRead(req[c].userId)
     IN IF user = NoDoc
        THEN Respond(c, "getLoggedUser", 500, MsgUserError, req[c].userId, NoGhost)
        ELSE Respond(c, "getLoggedUser", 200, user.email, user.id, NoGhost)
  /\ UNCHANGED <<env, now, users, nextUserId, cookie, inbox, registered, usedResets>>
  /\ UNCHANGED reviewVars
  /\ UNCHANGED catalogVars
  /\ UNCHANGED proc
  /\ UNCHANGED session

(***************************************************************************)
(* UserController.deleteLoggedUser, behind authenticateToken.              *)
(***************************************************************************)
MsgWrongPassword == "Contraseña incorrecta"
MsgDeleteError   == "Error al eliminar el usuario"
MsgDeleted       == "Usuario eliminado"

\* the turn of the request: authenticateToken (jwt.verify), then the handler
\* up to `await UserDAO.read(userId)`
UserDelete_auth(c, presented, password) ==
  /\ Idle(c)
  /\ LET auth == authenticateToken(presented, now)
     IN IF ~auth.next
        THEN Respond(c, "delete", auth.status, auth.msg, 0, NoGhost)
        ELSE Await(c, [IdleSlot EXCEPT !.op = "deleteRead", !.userId = auth.userId,
                         !.password = password])
  /\ UNCHANGED <<env, now, users, nextUserId, cookie, inbox, registered, usedResets>>
  /\ UNCHANGED reviewVars
  /\ UNCHANGED catalogVars
  /\ UNCHANGED proc
  /\ UNCHANGED session

\* UserDAO.read answers; with a user the handler parks at
\* `await bcrypt.compare`
UserDelete_read(c) ==
  /\ req[c].op = "deleteRead"
  /\ LET user == userRead(req[c].userId)
     IN IF user = NoDoc
        THEN Respond(c, "delete", 500, MsgDeleteError, req[c].userId, NoGhost)
        ELSE Await(c, [IdleSlot EXCEPT !.op = "delete",
                         !.password = req[c].password, !.doc = user])
  /\ UNCHANGED <<env, now, users, nextUserId, cookie, inbox, registered, usedResets>>
  /\ UNCHANGED reviewVars
  /\ UNCHANGED catalogVars
  /\ UNCHANGED proc
  /\ UNCHANGED session

\* the result of bcrypt.compare, taken with the document that was read: the
\* 401 of a wrong password, or `await UserDAO.delete(user._id)` and
\* res.clearCookie (after which the client's jar holds no cookie or the same
\* cookie, as for logout)
UserDelete_write(c) ==
  /\ req[c].op = "delete"
  /\ LET id == req[c].doc.id
     IN IF ~bcryptCompare(req[c].password, req[c].doc.password)
        THEN /\ UNCHANGED <<users, cookie>>
             /\ Respond(c, "delete", 401, MsgWrongPassword, id, NoGhost)
        ELSE IF ~\E u \in users : u.id = id
        THEN /\ UNCHANGED <<users, cookie>>
             /\ Respond(c, "delete", 500, MsgDeleteError, id, NoGhost)
        ELSE /\ users' = userDeleted(id)
             /\ \E jar \in {NoToken, cookie[c]} :
                  cookie' = [cookie EXCEPT ![c] = jar]
             /\ RespondCookie(c, "delete", 200, MsgDeleted, id, NoGhost,
                              clearToken(cookieOptions("none")))
  /\ UNCHANGED <<env, now, nextUserId, inbox, registered, usedResets>>
  /\ UNCHANGED reviewVars
  /\ UNCHANGED catalogVars
  /\ UNCHANGED proc
  /\ UNCHANGED session

(***************************************************************************)
(* Reviews: ReviewSchema, ReviewDAO and ReviewController.                  *)
(***************************************************************************)
MaxReviews    == 3   \* reviews ever created
MaxFavorites  == 2   \* favorites ever created
MinRating     == 1
MaxRating     == 5
MinCommentLen == 3
MaxCommentLen == 1000
NoRating      == -1   \* rating absent from the body (undefined / null)

NoReview == [id |-> 0, userId |-> 0, movieId |-> "", comment |-> <<>>,
             rating |-> NoRating]

\* the WhiteSpace and LineTerminator code points of ECMAScript, which
\* String.prototype.trim strips.  A string of this module is a sequence of
\* characters; an ASCII character is written as itself and a character
\* outside ASCII by the name of its code point ("U+00A0" is NO-BREAK SPACE,
\* "U+00E9" is e-acute), so that every element is one character whatever
\* the encoding of this file.
WhiteSpace ==
  {"\t", "\n", "", "\f", "\r", " ",
   "U+00A0", "U+1680",
   "U+2000", "U+2001", "U+2002", "U+2003", "U+2004", "U+2005", "U+2006",
   "U+2007", "U+2008", "U+2009", "U+200A",
   "U+2028", "U+2029", "U+202F", "U+205F", "U+3000", "U+FEFF"}

\* String.prototype.trim, applied by the `trim: true` setter of comment
RECURSIVE trimStart(_)
trimStart(s) == IF s # <<>> /\ Head(s) \in WhiteSpace THEN trimStart(Tail(s)) ELSE s

RECURSIVE trimEnd(_)
trimEnd(s) ==
  IF s # <<>> /\ s[Len(s)] \in WhiteSpace
  THEN trimEnd(SubSeq(s, 1, Len(s) - 1))
  ELSE s

trim(s) == trimEnd(trimStart(s))

\* the validators of ReviewSchema, run by document.save()
reviewSchemaValid(doc) ==
  /\ doc.userId # 0 /\ doc.movieId # ""
  /\ trim(doc.comment) # <<>>
  /\ Len(trim(doc.comment)) >= MinCommentLen
  /\ Len(trim(doc.comment)) <= MaxCommentLen
  /\ doc.rating # NoRating
  /\ doc.rating >= MinRating /\ doc.rating <= MaxRating

\* a findByUserAndMovie that never finds a review
findByUserAndMovie_none(userId, movieId) == NoReview

\* ReviewDAO.findByUserAndMovie
findByUserAndMovie(userId, movieId) ==
  LET match(r) == r.userId = userId /\ r.movieId = movieId
  IN IF \E r \in reviews : match(r) THEN CHOOSE r \in reviews : match(r)
     ELSE NoReview

\* reviewCreateOutcome of a collection without the unique index
reviewCreateOutcome_noIndex(data) ==
  IF ~reviewSchemaValid(data) THEN "invalid" ELSE "ok"

\* GlobalDao.create on reviews: how document.save() ends (validation first,
\* then the unique index on (userId, movieId))
reviewCreateOutcome(data) ==
  IF ~reviewSchemaValid(data) THEN "invalid"
  ELSE IF \E r \in reviews : r.userId = data.userId /\ r.movieId = data.movieId
  THEN "dup"
  ELSE "ok"

RECURSIVE sumRatings(_)
sumRatings(rs) ==
  IF rs = {} THEN 0
  ELSE LET r == CHOOSE x \in rs : TRUE IN r.rating + sumRatings(rs \ {r})

RECURSIVE gcd(_, _)
gcd(a, b) == IF b = 0 THEN a ELSE gcd(b, a % b)

\* a quotient of two naturals as the number it denotes: a fraction in lowest
\* terms
quotient(s, n) == [num |-> s \div gcd(s, n), den |-> n \div gcd(s, n)]

\* { $group: { _id: "$movieId", average: { $avg: "$rating" } } }
groupAvg(rs) == quotient(sumRatings(rs), Cardinality(rs))

\* getAverageRating without the $match stage
getAverageRating_all(movieId) ==
  IF reviews # {} THEN groupAvg(reviews) ELSE quotient(0, 1)

\* ReviewDAO.getAverageRating
getAverageRating(movieId) ==
  LET result == { r \in reviews : r.movieId = movieId }
  IN IF result # {} THEN groupAvg(result) ELSE quotient(0, 1)

MsgMissingFields   == "Faltan campos obligatorios"
MsgAlreadyReviewed == "Ya has reseñado esta película"
MsgReviewNotFound  == "No se encontró la reseña"
MsgReviewDeleted   == "Reseña eliminada correctamente"
MsgCreateInvalid   == "Error creating document: Review validation failed"
MsgCreateDup       == "Error creating document: E11000 duplicate key error"
MsgDeleteNotFound  == "Error deleting document by ID: Document not found"
MsgNoReviews       == "Este usuario no ha hecho reseñas"

HasReview(userId, movieId) ==
  \E r \in reviews : r.userId = userId /\ r.movieId = movieId

PendingReviewCreates ==
  Cardinality({ c \in Clients : req[c].op \in {"createReviewCheck", "createReview"} })

\* the turn of the request: authenticateToken (jwt.verify), then the handler's
\* required-field check, up to `await ReviewDAO.findByUserAndMovie`
ReviewCreate_auth(c, presented, body) ==
  /\ Idle(c)
  /\ LET auth == authenticateToken(presented, now)
         complete == ~( \/ body.userId = 0 \/ body.movieId = ""
                        \/ body.comment = <<>> \/ body.rating = NoRating )
     IN IF ~auth.next
        THEN Respond(c, "auth", auth.status, auth.msg, 0, NoGhost)
        ELSE IF ~complete
        THEN Respond(c, "createReview", 400, MsgMissingFields, 0, NoGhost)
        ELSE /\ nextReviewId + PendingReviewCreates <= MaxReviews
             /\ Await(c, [IdleSlot EXCEPT !.op = "createReviewCheck",
                            !.doc = [id |-> 0, userId |-> body.userId,
                                     movieId |-> body.movieId,
                                     comment |-> body.comment,
                                     rating |-> body.rating]])
  /\ UNCHANGED <<env, now, users, nextUserId, cookie, inbox, registered, usedResets>>
  /\ UNCHANGED reviewVars
  /\ UNCHANGED catalogVars
  /\ UNCHANGED proc
  /\ UNCHANGED session

\* findByUserAndMovie answers: the 409 of a stored review, or the handler
\* parks at `await ReviewDAO.create`
ReviewCreate_check(c) ==
  /\ req[c].op = "createReviewCheck"
  /\ LET body == req[c].doc
         existingReview == findByUserAndMovie(body.userId, body.movieId)
         g == [NoGhost EXCEPT
                 !.exists = HasReview(body.userId, body.movieId),
                 !.repeat = <<body.userId, body.movieId>> \in reviewed]
     IN IF existingReview # NoReview
        THEN Respond(c, "createReview", 409, MsgAlreadyReviewed, 0, g)
        ELSE Await(c, [req[c] EXCEPT !.op = "createReview", !.g = g])
  /\ UNCHANGED <<env, now, users, nextUserId, cookie, inbox, registered, usedResets>>
  /\ UNCHANGED reviewVars
  /\ UNCHANGED catalogVars
  /\ UNCHANGED proc
  /\ UNCHANGED session

\* `await ReviewDAO.create(req.body)`
ReviewCreate_write(c) ==
  /\ req[c].op = "createReview"
  /\ LET data == req[c].doc
         outcome == reviewCreateOutcome(data)
     IN IF outcome = "ok"
        THEN /\ reviews' = reviews \cup
                  {[data EXCEPT !.id = nextReviewId, !.comment = trim(data.comment)]}
             /\ nextReviewId' = nextReviewId + 1
             /\ reviewed' = reviewed \cup {<<data.userId, data.movieId>>}
             /\ Respond(c, "createReview", 201, "", 0, req[c].g)
        ELSE /\ UNCHANGED <<reviews, nextReviewId, reviewed>>
             /\ Respond(c, "createReview", 500,
                        IF outcome = "dup" THEN MsgCreateDup ELSE MsgCreateInvalid,
                        0, [req[c].g EXCEPT !.dup = (outcome = "dup")])
  /\ UNCHANGED <<env, now, users, nextUserId, cookie, inbox, registered, usedResets>>
  /\ UNCHANGED <<favorites, nextFavId>>
  /\ UNCHANGED catalogVars
  /\ UNCHANGED proc
  /\ UNCHANGED session

\* the _ids of a set of documents, in the order of their insertion
RECURSIVE idsOf(_)
idsOf(docs) ==
  IF docs = {} THEN <<>>
  ELSE LET d == CHOOSE x \in docs : \A y \in docs : x.id <= y.id
       IN <<d.id>> \o idsOf(docs \ {d})

\* ReviewDAO.getByUserId: Review.find({ userId })
getByUserId(userId) == {r \in reviews : r.userId = userId}

\* ReviewController.getByUser, the turn of the request: authenticateToken
\* (jwt.verify), then the handler up to `await ReviewDAO.getByUserId(userId)`
ReviewGetByUser_auth(c, presented, userId) ==
  /\ Idle(c)
  /\ LET auth == authenticateToken(presented, now)
     IN IF ~auth.next
        THEN Respond(c, "auth", auth.status, auth.msg, 0, NoGhost)
        ELSE Await(c, [IdleSlot EXCEPT !.op = "getByUser", !.id = userId])
  /\ UNCHANGED <<env, now, users, nextUserId, cookie, inbox, registered, usedResets>>
  /\ UNCHANGED reviewVars
  /\ UNCHANGED catalogVars
  /\ UNCHANGED proc
  /\ UNCHANGED session

\* getByUserId answers
ReviewGetByUser(c) ==
  /\ req[c].op = "getByUser"
  /\ LET found == getByUserId(req[c].id)
     IN IF found = {}
        THEN Respond(c, "getByUser", 404, MsgNoReviews, 0, NoGhost)
        ELSE /\ resp' = [NoResp EXCEPT !.op = "getByUser", !.status = 200,
                                       !.list = idsOf(found)]
             /\ req' = [req EXCEPT ![c] = IdleSlot]
  /\ UNCHANGED <<env, now, users, nextUserId, cookie, inbox, registered, usedResets>>
  /\ UNCHANGED reviewVars
  /\ UNCHANGED catalogVars
  /\ UNCHANGED proc
  /\ UNCHANGED session

\* ReviewController.update, the turn of the request: authenticateToken
\* (jwt.verify), then the handler up to `await ReviewDAO.updateByUserAndMovie`
ReviewUpdate_auth(c, presented, body) ==
  /\ Idle(c)
  /\ LET auth == authenticateToken(presented, now)
     IN IF ~auth.next
        THEN Respond(c, "auth", auth.status, auth.msg, 0, NoGhost)
        ELSE Await(c, [IdleSlot EXCEPT !.op = "updateReview",
                         !.doc = [id |-> 0, userId |-> body.userId,
                                  movieId |-> body.movieId,
                                  comment |-> body.comment,
                                  rating |-> body.rating]])
  /\ UNCHANGED <<env, now, users, nextUserId, cookie, inbox, registered, usedResets>>
  /\ UNCHANGED reviewVars
  /\ UNCHANGED catalogVars
  /\ UNCHANGED proc
  /\ UNCHANGED session

\* updateByUserAndMovie (findOneAndUpdate, one store operation) answers
ReviewUpdate(c) ==
  /\ req[c].op = "updateReview"
  /\ LET body == req[c].doc
         review == findByUserAndMovie(body.userId, body.movieId)
         g == [NoGhost EXCEPT !.exists = HasReview(body.userId, body.movieId)]
     IN IF review = NoReview
        THEN /\ UNCHANGED reviews
             /\ Respond(c, "updateReview", 404, MsgReviewNotFound, 0, g)
        ELSE /\ reviews' = (reviews \ {review}) \cup
                  {[review EXCEPT !.comment = trim(body.comment),
                                  !.rating = body.rating]}
             /\ Respond(c, "updateReview", 200, "", 0, g)
  /\ UNCHANGED <<env, now, users, nextUserId, cookie, inbox, registered, usedResets>>
  /\ UNCHANGED <<nextReviewId, favorites, nextFavId, reviewed>>
  /\ UNCHANGED catalogVars
  /\ UNCHANGED proc
  /\ UNCHANGED session

\* ReviewController.delete, the turn of the request: authenticateToken
\* (jwt.verify), then the handler up to `await ReviewDAO.delete(id)`
ReviewDelete_auth(c, presented, id) ==
  /\ Idle(c)
  /\ LET auth == authenticateToken(presented, now)
     IN IF ~auth.next
        THEN Respond(c, "auth", auth.status, auth.msg, 0, NoGhost)
        ELSE Await(c, [IdleSlot EXCEPT !.op = "deleteReview", !.id = id])
  /\ UNCHANGED <<env, now, users, nextUserId, cookie, inbox, registered, usedResets>>
  /\ UNCHANGED reviewVars
  /\ UNCHANGED catalogVars
  /\ UNCHANGED proc
  /\ UNCHANGED session

\* ReviewDAO.delete answers; GlobalDao.delete throws when findByIdAndDelete
\* finds nothing
ReviewDelete(c) ==
  /\ req[c].op = "deleteReview"
  /\ LET id == req[c].id
         g == [NoGhost EXCEPT !.exists = \E r \in reviews : r.id = id]
     IN IF ~\E r \in reviews : r.id = id
        THEN /\ UNCHANGED reviews
             /\ Respond(c, "deleteReview", 500, MsgDeleteNotFound, 0, g)
        ELSE /\ reviews' = { r \in reviews : r.id # id }
             /\ Respond(c, "deleteReview", 200, MsgReviewDeleted, 0, g)
  /\ UNCHANGED <<env, now, users, nextUserId, cookie, inbox, registered, usedResets>>
  /\ UNCHANGED <<nextReviewId, favorites, nextFavId, reviewed>>
  /\ UNCHANGED catalogVars
  /\ UNCHANGED proc
  /\ UNCHANGED session

\* ReviewController.getAverageRating (a public route)
ReviewAverage(c, movieId) ==
  /\ Idle(c)
  /\ LET average == getAverageRating(movieId)
     IN RespondBody(c, "average", 200, [movieId |-> movieId, average |-> average],
                    NoGhost)
  /\ UNCHANGED <<env, now, users, nextUserId, cookie, inbox, registered, usedResets>>
  /\ UNCHANGED reviewVars
  /\ UNCHANGED catalogVars
  /\ UNCHANGED proc
  /\ UNCHANGED session

(***************************************************************************)
(* Favorites: FavoriteController over GlobalDao (public routes).           *)
(***************************************************************************)
MsgMissingFavorite == "Missing userId or movieId"
MsgFavoriteDeleted == "Favorite deleted successfully"

\* a collection that keeps one favorite for each (userId, movieId)
favoriteCreated_unique(id, body) ==
  IF \E f \in favorites : f.userId = body.userId /\ f.movieId = body.movieId
  THEN favorites
  ELSE favorites \cup {[id |-> id, userId |-> body.userId, movieId |-> body.movieId]}

\* FavoriteDAO.create: the schema has no index besides _id, so the document
\* is inserted whatever is stored
favoriteCreated(id, body) ==
  favorites \cup {[id |-> id, userId |-> body.userId, movieId |-> body.movieId]}

\* FavoriteController.create
FavoriteCreate(c, body) ==
  /\ Idle(c)
  /\ IF body.userId = "" \/ body.movieId = ""
     THEN /\ UNCHANGED <<favorites, nextFavId>>
          /\ Respond(c, "createFavorite", 400, MsgMissingFavorite, 0, NoGhost)
     ELSE /\ nextFavId <= MaxFavorites
          /\ favorites' = favoriteCreated(nextFavId, body)
          /\ nextFavId' = nextFavId + 1
          /\ Respond(c, "createFavorite", 201, "", 0, NoGhost)
  /\ UNCHANGED <<env, now, users, nextUserId, cookie, inbox, registered, usedResets>>
  /\ UNCHANGED <<reviews, nextReviewId, reviewed>>
  /\ UNCHANGED catalogVars
  /\ UNCHANGED proc
  /\ UNCHANGED session

\* FavoriteController.delete: `await FavoriteDAO.delete(id)` throws when
\* findByIdAndDelete finds nothing, so the `!deleted` branch is never taken
FavoriteDelete(c, id) ==
  /\ Idle(c)
  /\ LET g == [NoGhost EXCEPT !.exists = \E f \in favorites : f.id = id]
     IN IF ~\E f \in favorites : f.id = id
        THEN /\ UNCHANGED favorites
             /\ Respond(c, "deleteFavorite", 500, MsgInternal, 0, g)
        ELSE /\ favorites' = { f \in favorites : f.id # id }
             /\ Respond(c, "deleteFavorite", 200, MsgFavoriteDeleted, 0, g)
  /\ UNCHANGED <<env, now, users, nextUserId, cookie, inbox, registered, usedResets>>
  /\ UNCHANGED <<reviews, nextReviewId, nextFavId, reviewed>>
  /\ UNCHANGED catalogVars
  /\ UNCHANGED proc
  /\ UNCHANGED session

(***************************************************************************)
(* The catalog: movies ingested from the Pexels service.  MovieSchema has  *)
(* no unique index: pexelsId is { type: Number, required: true }.          *)
(***************************************************************************)
MsgPopularError == "Error al obtener películas populares."
MsgSearchError  == "Error al buscar películas."
MsgNoCategory   == "Debes proporcionar una categoría o término de búsqueda."

\* video ids of the Pexels service
PexelsIds == {101, 102}

\* a video of the Pexels service; complete: it carries every field that
\* createMovieFromPexelsData reads and MovieSchema requires
Videos == [id : PexelsIds, complete : BOOLEAN]

\* response.videos of client.videos.popular / client.videos.search
VideoLists == UNION {[1..n -> Videos] : n \in 0..MaxVideos}

Categories == {"", "nature"}

\* MovieDAO.findByPexelsId: Movie.findOne({ pexelsId: id }), the documents
\* it may return (null is the empty set)
findByPexelsId(id) == {m \in movies : m.pexelsId = id}

\* GlobalDao.create on movies: how document.save() ends
movieCreateOutcome(video) ==
  IF ~video.complete THEN "invalid" ELSE "ok"

\* videos of the ingestion requests in flight
RECURSIVE pendingVideos(_)
pendingVideos(cs) ==
  IF cs = {} THEN 0
  ELSE LET c == CHOOSE x \in cs : TRUE
       IN Len(ingest[c].videos) + pendingVideos(cs \ {c})

\* res.status(status).json(...) of a movie handler
RespondMovies(op, status, msg, list) ==
  resp' = [NoResp EXCEPT !.op = op, !.status = status, !.msg = msg, !.list = list]

\* getPopularMovies / searchMoviesByCategory up to the loop: the category
\* check of search and `await getPopularVideos(pages)` / `await
\* searchVideos(category, pages)`, which throws when Pexels answers an error
MovieFetch(c, op, category, videos, failed) ==
  /\ ingest[c].phase = "idle"
  /\ nextMovieId + pendingVideos(Clients) + Len(videos) <= MaxMovies + 1
  /\ IF op = "search" /\ category = ""
     THEN /\ RespondMovies(op, 400, MsgNoCategory, <<>>)
          /\ UNCHANGED ingest
     ELSE IF failed
     THEN /\ RespondMovies(op, 500,
                           IF op = "search" THEN MsgSearchError ELSE MsgPopularError,
                           <<>>)
          /\ UNCHANGED ingest
     ELSE IF videos = <<>>
     THEN /\ RespondMovies(op, 200, "", <<>>)
          /\ UNCHANGED ingest
     ELSE /\ ingest' = [ingest EXCEPT ![c] =
                          [op |-> op, phase |-> "find", videos |-> videos, out |-> <<>>]]
          /\ UNCHANGED resp
  /\ UNCHANGED <<movies, nextMovieId>>
  /\ UNCHANGED <<env, now, users, nextUserId, req, cookie, inbox, registered, usedResets>>
  /\ UNCHANGED reviewVars
  /\ UNCHANGED session
  /\ UNCHANGED proc

\* the loop goes on to the next video, or the handler answers 200 with the
\* movies it collected
MovieNext(c, out) ==
  LET rest == Tail(ingest[c].videos)
  IN IF rest = <<>>
     THEN /\ RespondMovies(ingest[c].op, 200, "", out)
          /\ ingest' = [ingest EXCEPT ![c] = NoIngest]
     ELSE /\ ingest' = [ingest EXCEPT ![c] =
                          [@ EXCEPT !.phase = "find", !.videos = rest, !.out = out]]
          /\ UNCHANGED resp

\* createMovieFromPexelsData up to `await MovieDAO.findByPexelsId`
MovieCreate_find(c) ==
  /\ ingest[c].phase = "find"
  /\ LET existing == findByPexelsId(Head(ingest[c].videos).id)
     IN IF existing # {}
        THEN \E m \in existing : MovieNext(c, Append(ingest[c].out, m.id))
        ELSE /\ ingest' = [ingest EXCEPT ![c].phase = "create"]
             /\ UNCHANGED resp
  /\ UNCHANGED <<movies, nextMovieId>>
  /\ UNCHANGED <<env, now, users, nextUserId, req, cookie, inbox, registered, usedResets>>
  /\ UNCHANGED reviewVars
  /\ UNCHANGED session
  /\ UNCHANGED proc

\* createMovieFromPexelsData from `await MovieDAO.create` on; its catch
\* returns null and the video is skipped
MovieCreate_write(c) ==
  /\ ingest[c].phase = "create"
  /\ LET video == Head(ingest[c].videos)
     IN IF movieCreateOutcome(video) = "ok"
        THEN /\ movies' = movies \cup {[id |-> nextMovieId, pexelsId |-> video.id]}
             /\ nextMovieId' = nextMovieId + 1
             /\ MovieNext(c, Append(ingest[c].out, nextMovieId))
        ELSE /\ UNCHANGED <<movies, nextMovieId>>
             /\ MovieNext(c, ingest[c].out)
  /\ UNCHANGED <<env, now, users, nextUserId, req, cookie, inbox, registered, usedResets>>
  /\ UNCHANGED reviewVars
  /\ UNCHANGED session
  /\ UNCHANGED proc

MsgMovieError == "Error al obtener la película."

\* MovieController.getMovieById: `await MovieDAO.read(movieId)`; GlobalDao.read
\* throws when findById finds nothing
MovieGetById(c, id) ==
  /\ IF \E m \in movies : m.id = id
     THEN RespondMovies("getMovieById", 200, "", <<id>>)
     ELSE RespondMovies("getMovieById", 500, MsgMovieError, <<>>)
  /\ UNCHANGED <<env, now, users, nextUserId, req, cookie, inbox, registered, usedResets>>
  /\ UNCHANGED reviewVars
  /\ UNCHANGED catalogVars
  /\ UNCHANGED proc
  /\ UNCHANGED session

(***************************************************************************)
(* Time passes.                                                            *)
(***************************************************************************)
Tick(t) ==
  /\ t > now
  /\ now' = t
  /\ UNCHANGED <<env, users, nextUserId, req, cookie, inbox, resp, registered, usedResets>>
  /\ UNCHANGED reviewVars
  /\ UNCHANGED catalogVars
  /\ UNCHANGED proc
  /\ UNCHANGED session

(***************************************************************************)
(* The users specification.                                                *)
(***************************************************************************)
MongoUri == "mongodb://db/lumix"

EnvConfigured == [MONGO_URI |-> MongoUri, JWT_SECRET |-> Secret,
                  COOKIE_CONTROL |-> "lax", NODE_ENV |-> "development"]

\* the process after start-up: connected to the store and listening
Listening == [phase |-> "listening", db |-> "connected", exited |-> FALSE, status |-> 0]

\* what a client can send as the `token` cookie
Presentable(c) == {cookie[c], NoToken, Garbage, Forged}

\* what a client can send as the reset token of the e-mailed link
ResetTokens == inbox \cup {NoToken, Garbage}

\* client 1 is the browser in which the e-mailed reset links are followed;
\* the other clients are newcomers
Owner == {c \in Clients : c = 1}
Newcomers == Clients \ Owner

Init ==
  /\ env = EnvConfigured
  /\ now = 0
  /\ users = {}
  /\ nextUserId = 1
  /\ req = [c \in Clients |-> IdleSlot]
  /\ cookie = [c \in Clients |-> NoToken]
  /\ inbox = {}
  /\ resp = NoResp
  /\ registered = {}
  /\ usedResets = {}
  /\ reviews = {}
  /\ nextReviewId = 1
  /\ favorites = {}
  /\ nextFavId = 1
  /\ reviewed = {}
  /\ movies = {}
  /\ nextMovieId = 1
  /\ ingest = [c \in Clients |-> NoIngest]
  /\ session = [c \in Clients |-> NoSession]
  /\ proc = Listening

Register ==
  \E c \in Clients, b \in RegisterBodies :
    UserCreate_check(c, b.email, b.password, b.confirmPassword, b.age)
RegisterWrite == \E c \in Clients : UserCreate_write(c)
Login == \E c \in Clients, e \in Emails, p \in {PwGood1, PwGood2} : UserLogin(c, e, p)
Forgot == \E c \in Clients, e \in Emails : UserForgot_read(c, e)
ForgotWrite == \E c \in Clients : UserForgot_write(c)
ForgotMail == \E c \in Clients, mailOk \in BOOLEAN : UserForgot_mail(c, mailOk)
LoginCompare == \E c \in Clients : UserLogin_compare(c)
Reset ==
  \E c \in Owner, e \in Emails, t \in ResetTokens, b \in ResetBodies :
    UserReset_query(c, e, t, b.password, b.confirmPassword)
ResetRead == \E c \in Clients : UserReset_read(c)
ResetWrite == \E c \in Clients : UserReset_write(c)
\* the e-mailed link followed with a new password, or with a mistyped one
ResetLink ==
  \E c \in Owner, e \in Emails, t \in ResetTokens, b \in LinkBodies :
    UserReset_query(c, e, t, b.password, b.confirmPassword)
EditRead == \E c \in Clients : UserEdit_read(c)
EditWrite == \E c \in Clients : UserEdit_write(c)
DeleteRead == \E c \in Clients : UserDelete_read(c)
DeleteWrite == \E c \in Clients : UserDelete_write(c)
GetLoggedRead == \E c \in Clients : UserGetLogged(c)
Clock == \E t \in Times : Tick(t)

(***************************************************************************)
(* Accounts: register, login and account deletion, from the empty store.   *)
(***************************************************************************)
\* deleteLoggedUser with the cookie of the client's jar and the registered
\* password
DeleteAccount == \E c \in Clients : UserDelete_auth(c, cookie[c], PwGood1)

NextAccount ==
  \/ Register \/ RegisterWrite
  \/ Login \/ LoginCompare
  \/ DeleteAccount \/ DeleteRead \/ DeleteWrite
  \/ Clock

SpecAccount == Init /\ [][NextAccount]_vars

(***************************************************************************)
(* Password reset, from a store that holds one registered user.            *)
(***************************************************************************)
InitOneUser ==
  /\ env = EnvConfigured
  /\ now = 0
  /\ users = {[id |-> 1, email |-> "ana@lumix.co", password |-> hashPassword(PwGood1),
               age |-> 30, resetPasswordToken |-> NoToken,
               resetPasswordExpires |-> NoDate]}
  /\ nextUserId = 2
  /\ req = [c \in Clients |-> IdleSlot]
  /\ cookie = [c \in Clients |-> NoToken]
  /\ inbox = {}
  /\ resp = NoResp
  /\ registered = {"ana@lumix.co"}
  /\ usedResets = {}
  /\ reviews = {}
  /\ nextReviewId = 1
  /\ favorites = {}
  /\ nextFavId = 1
  /\ reviewed = {}
  /\ movies = {}
  /\ nextMovieId = 1
  /\ ingest = [c \in Clients |-> NoIngest]
  /\ session = [c \in Clients |-> NoSession]
  /\ proc = Listening

\* instants around the expiry of a token issued in the first second
ResetTimes == {HalfSecMs, HourMs, HourMs + HalfSecMs}

ResetClock == \E t \in ResetTimes : Tick(t)

NextReset ==
  \/ Forgot \/ ForgotWrite \/ ForgotMail
  \/ ResetLink \/ ResetRead \/ ResetWrite
  \/ ResetClock

SpecReset == InitOneUser /\ [][NextReset]_vars

(***************************************************************************)
(* Registration policy and reset policy together, from the empty store,    *)
(* with the clock stopped.                                                  *)
(***************************************************************************)
NextPolicy ==
  \/ Register \/ RegisterWrite
  \/ Forgot \/ ForgotWrite \/ ForgotMail
  \/ Reset \/ ResetRead \/ ResetWrite

SpecPolicy == Init /\ [][NextPolicy]_vars

(***************************************************************************)
(* Reviews and favorites, from a store with two registered users whose     *)
(* clients are logged in, with the clock stopped.                          *)
(***************************************************************************)
Movies        == {"m1", "m2"}
CommentGood   == <<"g","o","o","d">>
CommentEdited == <<"f","i","n","e"," ">>
CommentShort  == <<" ","o","k"," ">>

\* bodies of POST /reviews: valid ones, one that fails the schema's rating
\* bounds, one that fails its comment length, one with a field missing
ReviewBodies ==
  { [userId |-> 1, movieId |-> "m1", comment |-> CommentGood, rating |-> r] :
      r \in {3, 5} }
  \cup { [userId |-> 2, movieId |-> "m1", comment |-> CommentGood, rating |-> 5],
         [userId |-> 1, movieId |-> "m2", comment |-> CommentGood, rating |-> 3] }
  \cup { [userId |-> 1, movieId |-> "m1", comment |-> CommentGood, rating |-> 6],
        [userId |-> 1, movieId |-> "m1", comment |-> CommentShort, rating |-> 3],
        [userId |-> 1, movieId |-> "m1", comment |-> <<>>, rating |-> 3] }

\* bodies of PUT /reviews
UpdateBodies ==
  { [userId |-> 1, movieId |-> m, comment |-> CommentEdited, rating |-> 4] :
      m \in Movies }

FavoriteBodies ==
  { [userId |-> "1", movieId |-> "m1"], [userId |-> "1", movieId |-> ""] }

InitSignedIn ==
  /\ env = EnvConfigured
  /\ now = 0
  /\ users = { [id |-> i, email |-> (IF i = 1 THEN "ana@lumix.co" ELSE "luz@lumix.co"),
                password |-> hashPassword(PwGood1), age |-> 30,
                resetPasswordToken |-> NoToken, resetPasswordExpires |-> NoDate] :
               i \in 1..2 }
  /\ nextUserId = 3
  /\ req = [c \in Clients |-> IdleSlot]
  /\ cookie = [c \in Clients |->
                 jwtSign(((c - 1) % 2) + 1, Secret, LoginJwtSeconds, 0)]
  /\ inbox = {}
  /\ resp = NoResp
  /\ registered = {"ana@lumix.co", "luz@lumix.co"}
  /\ usedResets = {}
  /\ reviews = {}
  /\ nextReviewId = 1
  /\ favorites = {}
  /\ nextFavId = 1
  /\ reviewed = {}
  /\ movies = {}
  /\ nextMovieId = 1
  /\ ingest = [c \in Clients |-> NoIngest]
  /\ session = [c \in Clients |-> NoSession]
  /\ proc = Listening

CreateReview ==
  \E c \in Clients, b \in ReviewBodies : ReviewCreate_auth(c, cookie[c], b)
CreateReviewCheck == \E c \in Clients : ReviewCreate_check(c)
CreateReviewWrite == \E c \in Clients : ReviewCreate_write(c)
GetByUserRead == \E c \in Clients : ReviewGetByUser(c)
UpdateReviewWrite == \E c \in Clients : ReviewUpdate(c)
DeleteReviewWrite == \E c \in Clients : ReviewDelete(c)
DeleteReview ==
  \E c \in Clients, id \in 1..MaxReviews : ReviewDelete_auth(c, cookie[c], id)
CreateFavorite == \E c \in Clients, b \in FavoriteBodies : FavoriteCreate(c, b)
DeleteFavorite == \E c \in Clients, id \in 1..(MaxFavorites + 1) : FavoriteDelete(c, id)

\* both clients create reviews; client 1 also updates, deletes, asks for
\* averages and keeps favorites
UpdateMine ==
  \E c \in Owner, b \in UpdateBodies : ReviewUpdate_auth(c, cookie[c], b)
DeleteMine ==
  \E c \in Owner, id \in 1..MaxReviews : ReviewDelete_auth(c, cookie[c], id)
AverageMine == \E c \in Owner, m \in Movies : ReviewAverage(c, m)
FavoriteMine == \E c \in Owner, b \in FavoriteBodies : FavoriteCreate(c, b)
UnfavoriteMine ==
  \E c \in Owner, id \in 1..(MaxFavorites + 1) : FavoriteDelete(c, id)

NextReview ==
  \/ CreateReview \/ CreateReviewCheck \/ CreateReviewWrite
  \/ UpdateMine \/ UpdateReviewWrite
  \/ DeleteMine \/ DeleteReviewWrite
  \/ AverageMine
  \/ FavoriteMine
  \/ UnfavoriteMine

SpecReview == InitSignedIn /\ [][NextReview]_vars

(***************************************************************************)
(* The guarded review routes, presented with every kind of token cookie    *)
(* while the clock runs past the lifetime of the clients' tokens.          *)
(***************************************************************************)
GuardBodies ==
  { [userId |-> u, movieId |-> "m1", comment |-> CommentGood, rating |-> 5] :
      u \in 1..2 }

GuardedCreate ==
  \E c \in Clients, b \in GuardBodies : \E t \in Presentable(c) : ReviewCreate_auth(c, t, b)
GuardedList ==
  \E c \in Clients, u \in 1..2 : \E t \in Presentable(c) : ReviewGetByUser_auth(c, t, u)
GuardedUpdate ==
  \E c \in Clients, b \in UpdateBodies : \E t \in Presentable(c) : ReviewUpdate_auth(c, t, b)
GuardedDelete ==
  \E c \in Clients, id \in 1..MaxReviews : \E t \in Presentable(c) : ReviewDelete_auth(c, t, id)

NextGuard ==
  \/ GuardedCreate \/ CreateReviewCheck \/ CreateReviewWrite
  \/ GuardedList \/ GetByUserRead
  \/ GuardedUpdate \/ UpdateReviewWrite
  \/ GuardedDelete \/ DeleteReviewWrite
  \/ Clock

SpecGuard == InitSignedIn /\ [][NextGuard]_vars

(***************************************************************************)
(* Profiles: register, login, editLoggedUser, forgotPassword,              *)
(* resetPassword and deleteLoggedUser interleaved, from a store that holds *)
(* one registered user, with the clock stopped.                            *)
(***************************************************************************)
RegisterValid ==
  \E c \in Newcomers, e \in Emails : UserCreate_check(c, e, PwGood1, PwGood1, 30)
SignIn == \E c \in Clients, e \in Emails : UserLogin(c, e, PwGood1)
\* the newcomers' browsers sign in (to any account), edit the email of the
\* account they are signed in to, and delete it
SignInElsewhere == \E c \in Newcomers, e \in Emails : UserLogin(c, e, PwGood1)
EditEmail ==
  \E c \in Newcomers, e \in Emails : UserEdit_auth(c, cookie[c], TRUE, e, FALSE, 0)
DeleteOwn == \E c \in Newcomers : UserDelete_auth(c, cookie[c], PwGood1)
ForgotOwn == \E c \in Owner, e \in Emails : UserForgot_read(c, e)
ForgotStored == \E c \in Owner : UserForgot_write(c)
ForgotDelivered == \E c \in Owner : UserForgot_mail(c, TRUE)
ResetSamePassword ==
  \E c \in Owner, e \in Emails, t \in inbox : UserReset_query(c, e, t, PwGood1, PwGood1)

NextProfile ==
  \/ RegisterValid \/ RegisterWrite
  \/ SignInElsewhere \/ LoginCompare
  \/ EditEmail \/ EditRead \/ EditWrite
  \/ ForgotOwn \/ ForgotStored \/ ForgotDelivered
  \/ ResetSamePassword \/ ResetRead \/ ResetWrite
  \/ DeleteOwn \/ DeleteRead \/ DeleteWrite

SpecProfile == InitOneUser /\ [][NextProfile]_vars

(***************************************************************************)
(* The catalog: ingestion requests of the clients interleaved at the       *)
(* awaits of createMovieFromPexelsData, from the empty catalog.            *)
(***************************************************************************)
PopularMovies ==
  \E c \in Clients, videos \in VideoLists, failed \in BOOLEAN :
    MovieFetch(c, "popular", "", videos, failed)
SearchMovies ==
  \E c \in Clients, category \in Categories, videos \in VideoLists :
    MovieFetch(c, "search", category, videos, FALSE)
FindMovie == \E c \in Clients : MovieCreate_find(c)
CreateMovie == \E c \in Clients : MovieCreate_write(c)

NextCatalog ==
  \/ PopularMovies
  \/ SearchMovies
  \/ FindMovie
  \/ CreateMovie

SpecCatalog == Init /\ [][NextCatalog]_vars

(***************************************************************************)
(* Sessions: login, requests to a guarded route with the cookie of the     *)
(* client's jar, logout and deleteLoggedUser while the clock runs, for     *)
(* every setting of COOKIE_CONTROL and NODE_ENV, with one registered user. *)
(***************************************************************************)
SameSiteModes == {"lax", "strict", "none"}

\* process.env: JWT_SECRET is set; COOKIE_CONTROL is a same-site mode or is
\* not set; NODE_ENV is production or not
Envs ==
  [MONGO_URI : {MongoUri}, JWT_SECRET : {Secret},
   COOKIE_CONTROL : SameSiteModes \cup {Unset},
   NODE_ENV : {"production", "development"}]

InitSession ==
  /\ env \in Envs
  /\ now = 0
  /\ users = {[id |-> 1, email |-> "ana@lumix.co", password |-> hashPassword(PwGood1),
               age |-> 30, resetPasswordToken |-> NoToken,
               resetPasswordExpires |-> NoDate]}
  /\ nextUserId = 2
  /\ req = [c \in Clients |-> IdleSlot]
  /\ cookie = [c \in Clients |-> NoToken]
  /\ inbox = {}
  /\ resp = NoResp
  /\ registered = {"ana@lumix.co"}
  /\ usedResets = {}
  /\ reviews = {}
  /\ nextReviewId = 1
  /\ favorites = {}
  /\ nextFavId = 1
  /\ reviewed = {}
  /\ movies = {}
  /\ nextMovieId = 1
  /\ ingest = [c \in Clients |-> NoIngest]
  /\ session = [c \in Clients |-> NoSession]
  /\ proc = Listening

Logout == \E c \in Clients : UserLogout(c)
\* GET /reviews/user/:userId with the cookie of the client's jar
SessionRequest == \E c \in Clients : ReviewGetByUser_auth(c, cookie[c], 1)
\* the same request with the token the session's last login was issued,
\* whatever the jar holds now
SessionReplay == \E c \in Clients : ReviewGetByUser_auth(c, session[c].token, 1)
SessionDelete ==
  \E c \in Clients, p \in {PwGood1, PwGood2} : UserDelete_auth(c, cookie[c], p)

NextSession ==
  \/ Login \/ LoginCompare
  \/ Logout
  \/ SessionRequest \/ SessionReplay \/ GetByUserRead
  \/ SessionDelete \/ DeleteRead \/ DeleteWrite
  \/ Clock

SpecSession == InitSession /\ [][NextSession]_vars

(***************************************************************************)
(* Start-up: the module body of the app calls connectDB() without          *)
(* awaiting it, mounts the routes and listens.                             *)
(***************************************************************************)
Loading == [phase |-> "loading", db |-> "none", exited |-> FALSE, status |-> 0]

\* process.exit(1)
Exited == [phase |-> "exited", db |-> "none", exited |-> TRUE, status |-> 1]

\* the module body: connectDB() up to `await mongoose.connect` (it exits when
\* MONGO_URI is not set), app.use(routes), app.listen(PORT)
AppLoad ==
  /\ proc.phase = "loading"
  /\ proc' = IF env.MONGO_URI = Unset
             THEN Exited
             ELSE [Loading EXCEPT !.phase = "listening", !.db = "connecting"]
  /\ UNCHANGED <<env, now, users, nextUserId, req, cookie, inbox, resp,
                 registered, usedResets>>
  /\ UNCHANGED reviewVars
  /\ UNCHANGED catalogVars
  /\ UNCHANGED session

\* connectDB from `await mongoose.connect` on: connected, or process.exit(1)
\* in its catch
ConnectDone(ok) ==
  /\ proc.db = "connecting"
  /\ proc' = IF ok THEN [proc EXCEPT !.db = "connected"] ELSE Exited
  /\ UNCHANGED <<env, now, users, nextUserId, req, cookie, inbox, resp,
                 registered, usedResets>>
  /\ UNCHANGED reviewVars
  /\ UNCHANGED catalogVars
  /\ UNCHANGED session

\* disconnectDB from `await mongoose.disconnect` on: the store connection is
\* closed and the process keeps listening, or process.exit(1) in its catch
disconnectDB(ok) ==
  /\ proc.phase = "listening"
  /\ proc' = IF ok THEN [proc EXCEPT !.db = "disconnected"] ELSE Exited
  /\ UNCHANGED <<env, now, users, nextUserId, req, cookie, inbox, resp,
                 registered, usedResets>>
  /\ UNCHANGED reviewVars
  /\ UNCHANGED catalogVars
  /\ UNCHANGED session

\* the process answers requests
Serving == proc.phase = "listening" /\ proc.db = "connected"

\* process.env at start-up: MONGO_URI and JWT_SECRET set or not
StartEnvs ==
  [MONGO_URI : {MongoUri, Unset}, JWT_SECRET : {Secret, Unset},
   COOKIE_CONTROL : {"lax"}, NODE_ENV : {"production", "development"}]

InitStart ==
  /\ env \in StartEnvs
  /\ now = 0
  /\ users = {[id |-> 1, email |-> "ana@lumix.co", password |-> hashPassword(PwGood1),
               age |-> 30, resetPasswordToken |-> NoToken,
               resetPasswordExpires |-> NoDate]}
  /\ nextUserId = 2
  /\ req = [c \in Clients |-> IdleSlot]
  /\ cookie = [c \in Clients |-> NoToken]
  /\ inbox = {}
  /\ resp = NoResp
  /\ registered = {"ana@lumix.co"}
  /\ usedResets = {}
  /\ reviews = {}
  /\ nextReviewId = 1
  /\ favorites = {}
  /\ nextFavId = 1
  /\ reviewed = {}
  /\ movies = {}
  /\ nextMovieId = 1
  /\ ingest = [c \in Clients |-> NoIngest]
  /\ session = [c \in Clients |-> NoSession]
  /\ proc = Loading

Connect == \E ok \in BOOLEAN : ConnectDone(ok)
Disconnect == \E ok \in BOOLEAN : disconnectDB(ok)
ServeLogin == Serving /\ Login
ServeLoginCompare == Serving /\ LoginCompare
ServeRequest == Serving /\ SessionRequest
ServeRequestRead == Serving /\ GetByUserRead
ServeLogout == Serving /\ Logout
ServeClock == Serving /\ Clock

NextStart ==
  \/ AppLoad
  \/ Connect
  \/ Disconnect
  \/ ServeLogin \/ ServeLoginCompare
  \/ ServeRequest \/ ServeRequestRead
  \/ ServeLogout
  \/ ServeClock

SpecStart == InitStart /\ [][NextStart]_vars

(***************************************************************************)
(* Look-ups by id: the logged-in user's handlers and getMovieById, with    *)
(* two users signed in (each possibly on a second device that holds the    *)
(* same token), accounts being deleted and one video being ingested.       *)
(***************************************************************************)
\* the tokens issued by the logins of InitSignedIn
LoginTokens == {jwtSign(u, Secret, LoginJwtSeconds, 0) : u \in 1..MaxUsers}

OneVideo == <<[id |-> 101, complete |-> TRUE]>>

LookupUser == \E c \in Clients, t \in LoginTokens : UserGetLogged_auth(c, t)
LookupEdit ==
  \E c \in Clients, t \in LoginTokens : UserEdit_auth(c, t, FALSE, "", TRUE, 30)
LookupDelete ==
  \E c \in Clients, t \in LoginTokens : UserDelete_auth(c, t, PwGood1)
LookupMovie == \E c \in Clients, id \in 1..MaxMovies : MovieGetById(c, id)
IngestOne == \E c \in Clients : MovieFetch(c, "popular", "", OneVideo, FALSE)

NextLookup ==
  \/ LookupUser \/ GetLoggedRead
  \/ LookupEdit \/ EditRead \/ EditWrite
  \/ LookupDelete \/ DeleteRead \/ DeleteWrite
  \/ LookupMovie
  \/ IngestOne \/ FindMovie \/ CreateMovie

SpecLookup == InitSignedIn /\ [][NextLookup]_vars

(***************************************************************************)
(* Review bounds: create and update with ratings and comments inside and   *)
(* outside the bounds of ReviewSchema.                                     *)
(***************************************************************************)
\* bodies of PUT /reviews with a rating above 5 or a comment of 2 characters
BoundBodies ==
  { [userId |-> 1, movieId |-> "m1", comment |-> cm, rating |-> r] :
      cm \in {CommentEdited, CommentShort}, r \in {4, 6} }

UpdateBounds ==
  \E c \in Clients, b \in BoundBodies : ReviewUpdate_auth(c, cookie[c], b)

NextBounds ==
  \/ CreateReview \/ CreateReviewCheck \/ CreateReviewWrite
  \/ UpdateBounds \/ UpdateReviewWrite
  \/ DeleteReview \/ DeleteReviewWrite

SpecBounds == InitSignedIn /\ [][NextBounds]_vars

(***************************************************************************)
(* Accounts deleted while their reviews and favorites are stored.          *)
(***************************************************************************)
NextCascade ==
  \/ CreateReview \/ CreateReviewCheck \/ CreateReviewWrite
  \/ CreateFavorite
  \/ LookupDelete \/ DeleteRead \/ DeleteWrite

SpecCascade == InitSignedIn /\ [][NextCascade]_vars

(***************************************************************************)
(* Favorites created with and without their fields, and deleted.           *)
(***************************************************************************)
\* "9" is the id of no stored user: the handler does not look the user up
FavoritePairs ==
  { [userId |-> u, movieId |-> m] : u \in {"1", "2", "9", ""}, m \in {"m1", "m2", ""} }

CreatePair == \E c \in Clients, b \in FavoritePairs : FavoriteCreate(c, b)

NextFavorite ==
  \/ CreatePair
  \/ DeleteFavorite

SpecFavorite == InitSignedIn /\ [][NextFavorite]_vars

(***************************************************************************)
(* The token of the reset e-mail presented as the session cookie.          *)
(***************************************************************************)
PresentReset == \E c \in Clients, t \in inbox : UserGetLogged_auth(c, t)
ListWithReset == \E c \in Clients, t \in inbox : ReviewGetByUser_auth(c, t, 1)

NextCredential ==
  \/ ForgotOwn \/ ForgotStored \/ ForgotDelivered
  \/ SignIn \/ LoginCompare
  \/ PresentReset \/ GetLoggedRead
  \/ ListWithReset \/ GetByUserRead
  \/ Clock

SpecCredential == InitOneUser /\ [][NextCredential]_vars

(***************************************************************************)
(* Register, reset and login: every account is registered with PwGood1 and *)
(* every reset link is followed with PwGood2.                              *)
(***************************************************************************)
NextRoundTrip ==
  \/ RegisterValid \/ RegisterWrite
  \/ Forgot \/ ForgotWrite \/ ForgotMail
  \/ ResetLink \/ ResetRead \/ ResetWrite
  \/ Login \/ LoginCompare

SpecRoundTrip == InitOneUser /\ [][NextRoundTrip]_vars

(***************************************************************************)
(* Reset links requested seconds apart: several issued tokens are within   *)
(* their hour at the same time, and the links of all of them are followed. *)
(***************************************************************************)
LinkTimes == {MsPerSecond, HourMs, HourMs + MsPerSecond}

LinkClock == \E t \in LinkTimes : Tick(t)
ResetIssued ==
  \E c \in Owner, e \in Emails, t \in inbox, b \in LinkBodies :
    UserReset_query(c, e, t, b.password, b.confirmPassword)

NextSupersede ==
  \/ Forgot \/ ForgotWrite \/ ForgotMail
  \/ ResetIssued \/ ResetRead \/ ResetWrite
  \/ LinkClock

SpecSupersede == InitOneUser /\ [][NextSupersede]_vars

(***************************************************************************)
(* Accounts deleted while their passwords are reset: two users signed in,  *)
(* reset links requested and followed in client 1, deleteLoggedUser with   *)
(* the registered and with the reset password in every client, and the     *)
(* clock passing the lifetime of the clients' tokens.                      *)
(***************************************************************************)
RemovalClock == Tick(LoginJwtSeconds * MsPerSecond)
ResetNew ==
  \E c \in Owner, e \in Emails, t \in inbox : UserReset_query(c, e, t, PwGood2, PwGood2)
RemoveAccount ==
  \E c \in Clients, p \in {PwGood1, PwGood2} : UserDelete_auth(c, cookie[c], p)

NextRemoval ==
  \/ ForgotOwn \/ ForgotStored \/ ForgotDelivered
  \/ ResetNew \/ ResetRead \/ ResetWrite
  \/ RemoveAccount \/ DeleteRead \/ DeleteWrite
  \/ RemovalClock

SpecRemoval == InitSignedIn /\ [][NextRemoval]_vars

(***************************************************************************)
(* Properties.                                                             *)
(***************************************************************************)
\* a response was sent in this step: the last response changed, or no
\* request was parked or completed (the handler answered at once)
Responded == resp' # resp \/ req' = req

\* C1 (as stated): once a register with email e was answered 201, every later
\* register request with e and an otherwise valid body is answered 409.
C1_RegisterTwiceAlwaysConflict ==
  (resp.op = "register" /\ resp.g.repeat) => resp.status = 409

\* C1 (amended): a register request with a valid body for an email that was
\* registered before and is still the email of a stored user when the
\* pre-check runs is answered 409, never reaches the write, and adds no user.
C1_ConflictWhileEmailStored ==
  /\ [](/\ (resp.op = "register" /\ resp.g.repeat /\ resp.g.exists)
             => resp.status = 409
        /\ \A c \in Clients :
             req[c].op = "register" => ~(req[c].g.repeat /\ req[c].g.exists))
  /\ [][(Responded /\ resp'.op = "register" /\ resp'.g.repeat /\ resp'.g.exists)
          => (users' = users /\ nextUserId' = nextUserId)]_vars

C1_Witness ==
  /\ resp.op = "register" /\ resp.status = 409
  /\ resp.g.repeat /\ resp.g.exists
  /\ Cardinality(users) = 1

\* C2: a register request whose write hits the unique index on email (both
\* pre-checks ran before either write) is answered 409 like the pre-check.
C2_RaceSurfacesAsConflict ==
  (resp.op = "register" /\ resp.g.dup) => resp.status = 409

\* C3: after a resetPassword with (email, token) was answered 200, every later
\* resetPassword with the same email and token is answered 400 because the
\* token no longer matches (it is never accepted again).
C3_ResetTokenSingleUse ==
  (resp.op = "reset" /\ resp.g.repeat) => (resp.status = 400 /\ ~resp.g.tokenLive)

\* C4 (as stated): resetPassword is answered 400 "invalid or expired token"
\* whenever, when the store answers its look-up, no user has that email with
\* that stored token and an expiry in the future, and then the users
\* collection is left as it was.
C4_InvalidOrExpiredToken ==
  [][\A c \in Clients :
       ( /\ UserReset_read(c)
         /\ ~HasLiveToken(req[c].email, req[c].token, now) )
         => /\ resp'.status = 400 /\ resp'.msg = MsgBadToken
            /\ req'[c] = IdleSlot
            /\ users' = users]_vars

\* C4 (amended): resetPassword is answered 400 "invalid or expired token"
\* whenever no user has that email with that stored token and an expiry
\* after the instant at which the handler built its query (Date.now() in
\* readByResetToken, read before the look-up is awaited); such a request
\* never reaches the write and leaves the users collection as it was.
C4_InvalidOrExpiredAtQuery ==
  /\ [](/\ (resp.op = "reset" /\ ~resp.g.tokenLive)
             => (resp.status = 400 /\ resp.msg = MsgBadToken)
        /\ \A c \in Clients : req[c].op = "reset" => req[c].g.tokenLive)
  /\ [][/\ (Responded /\ resp'.op = "reset" /\ ~resp'.g.tokenLive)
             => users' = users
        /\ \A c \in Clients, e \in Emails, t \in ResetTokens, b \in LinkBodies :
             UserReset_query(c, e, t, b.password, b.confirmPassword)
               => /\ req'[c].at = now /\ req'[c].email = e /\ req'[c].token = t
                  /\ users' = users /\ resp' = resp
        /\ \A c \in Clients :
             UserReset_read(c)
               => IF HasLiveToken(req[c].email, req[c].token, req[c].at)
                  THEN \/ req'[c].op = "reset"
                       \/ resp'.msg \in {MsgMismatch, MsgInvalid}
                  ELSE /\ resp'.status = 400 /\ resp'.msg = MsgBadToken
                       /\ req'[c] = IdleSlot
                       /\ users' = users]_vars

C4_Witness ==
  /\ resp.op = "reset" /\ resp.status = 400 /\ resp.msg = MsgBadToken
  /\ resp.g.tokenStored /\ ~resp.g.tokenLive
  /\ \E u \in users : /\ u.resetPasswordToken \in inbox
                      /\ u.resetPasswordExpires = now

\* C5: forgotPassword answers a registered email exactly as it answers an
\* unregistered one (202 and the generic message).
C5_ForgotSameAcknowledgment ==
  (resp.op = "forgot" /\ resp.g.exists /\ resp.status # 500)
    => (resp.status = 202 /\ resp.msg = MsgForgotGeneric)

\* C6: the cookie token set by a successful login of user u is accepted by
\* authenticateToken at every instant before its 2-hour expiry and binds
\* req.userId to u's identifier.
C6_LoginThenVerify ==
  [][\A c \in Clients :
       ( /\ UserLogin_compare(c)
         /\ bcryptCompare(req[c].password, req[c].doc.password) )
         => LET u == req[c].doc
            IN /\ u.email = req[c].email
               /\ resp'.status = 200 /\ resp'.userId = u.id
               /\ \A t \in Times :
                    ( /\ t >= now
                      /\ (t \div MsPerSecond) < (now \div MsPerSecond) + LoginJwtSeconds )
                    => authenticateToken(cookie'[c], t) =
                         [next |-> TRUE, status |-> 0, msg |-> "", userId |-> u.id]]_vars

C6_Witness ==
  \E c \in Clients :
    /\ req[c].op = "delete"
    /\ cookie[c] # NoToken
    /\ req[c].doc.id = cookie[c].userId
    /\ now >= HourMs
    /\ now > (cookie[c].iat * MsPerSecond)

\* C7: register and resetPassword answer 400 to every request whose password
\* differs from its confirmation, is shorter than 8 characters, or lacks an
\* uppercase letter, a digit or a symbol; such a request never reaches the
\* write and leaves the users collection (password, reset token and expiry
\* included) as it was.
C7_PasswordPolicy ==
  /\ [](/\ (resp.op \in {"register", "reset"} /\ resp.g.policyBad)
             => resp.status = 400
        /\ \A c \in Clients :
             req[c].op \in {"register", "reset"} => ~req[c].g.policyBad)
  /\ [][(Responded /\ resp'.op \in {"register", "reset"} /\ resp'.g.policyBad)
          => (users' = users /\ nextUserId' = nextUserId)]_vars

C7_Witness ==
  /\ resp.op = "reset" /\ resp.status = 400
  /\ resp.g.tokenLive /\ resp.g.policyBad
  /\ resp.msg \in {MsgInvalid, MsgMismatch}
  /\ \E u \in users : u.resetPasswordToken \in inbox /\ u.resetPasswordExpires > now
  /\ Cardinality(users) = 2

\* C8 (as stated): once a create-review for a (userId, movieId) pair was
\* answered 201, every later create-review request for the pair with all
\* required fields present is answered 409.
C8_SecondReviewAlwaysConflict ==
  (resp.op = "createReview" /\ resp.g.repeat) => resp.status = 409

\* C8 (amended): a create-review request with all required fields present for
\* a pair that has a stored review when the pre-check runs is answered 409,
\* never reaches the write, and leaves the reviews collection as it was.
C8_ConflictWhileReviewStored ==
  /\ [](/\ (resp.op = "createReview" /\ resp.g.exists) => resp.status = 409
        /\ \A c \in Clients : req[c].op = "createReview" => ~req[c].g.exists)
  /\ [][(Responded /\ resp'.op = "createReview" /\ resp'.g.exists)
          => (reviews' = reviews /\ nextReviewId' = nextReviewId)]_vars

C8_Witness ==
  /\ resp.op = "createReview" /\ resp.status = 409 /\ resp.g.exists
  /\ \E r \in reviews : r.userId = 1 /\ r.movieId = "m1" /\ r.rating = 4
  /\ Cardinality(reviews) = 2

\* C9: deleting a favorite or a review by an identifier that is not in the
\* store is answered 404.
C9_DeleteMissingIsNotFound ==
  (resp.op \in {"deleteReview", "deleteFavorite"} /\ ~resp.g.exists)
    => resp.status = 404

\* a/b as a fraction in lowest terms is the mean of the ratings of rs
IsMeanOf(a, rs) ==
  /\ a.den > 0
  /\ a.num * Cardinality(rs) = a.den * sumRatings(rs)
  /\ \A d \in 2..a.den : ~(a.num % d = 0 /\ a.den % d = 0)

\* C10: getAverageRating answers 200 with average 0 when no stored review has
\* that movieId and otherwise with the arithmetic mean of the ratings of
\* exactly the reviews with that movieId, and leaves the store unchanged.
C10_AverageRating ==
  [][(Responded /\ resp'.op = "average") =>
       LET matching == { r \in reviews : r.movieId = resp'.body.movieId }
       IN /\ resp'.status = 200
          /\ matching = {} => resp'.body.average = [num |-> 0, den |-> 1]
          /\ matching # {} => IsMeanOf(resp'.body.average, matching)
          /\ reviews' = reviews /\ favorites' = favorites /\ users' = users]_vars

C10_Witness ==
  /\ resp.op = "average" /\ resp.status = 200
  /\ resp.body = [movieId |-> "m1", average |-> [num |-> 4, den |-> 1]]
  /\ { r.rating : r \in { x \in reviews : x.movieId = "m1" } } = {3, 5}
  /\ \E r \in reviews : r.movieId = "m2" /\ r.rating = 3

\* C11: in every reachable state no two stored users have the same email.
C11_EmailUnique ==
  \A u \in users, v \in users : u.email = v.email => u = v

\* the unique index refused a stale whole-document write of forgotPassword
\* that would have given two users the same email
C11_Witness ==
  /\ resp.op = "forgot" /\ resp.status = 500 /\ resp.g.dup
  /\ Cardinality(users) = 2
  /\ \E u \in users : u.id = 1 /\ u.email = "luz@lumix.co"

\* a value produced by bcrypt.hash
IsBcryptHash(h) == DOMAIN h = {"bcrypt"}

\* C12: in every reachable state the password of every stored user is a
\* bcrypt hash, never the plaintext a client submitted.
C12_PasswordHashed ==
  \A u \in users : IsBcryptHash(u.password)

C12_Witness ==
  /\ resp.op = "reset" /\ resp.status = 200
  /\ Cardinality(users) = 2
  /\ \E u \in users : u.id = 1 /\ u.email = "luz@lumix.co" /\ u.age = 30

\* C13: in every reachable state there is at most one review for each
\* (userId, movieId) pair.
C13_OneReviewPerPair ==
  \A r \in reviews, q \in reviews :
    (r.userId = q.userId /\ r.movieId = q.movieId) => r = q

\* two creates for one pair both passed the pre-check; the unique index
\* refused the second write
C13_Witness ==
  /\ resp.op = "createReview" /\ resp.status = 500 /\ resp.g.dup
  /\ Cardinality({r \in reviews : r.userId = 1 /\ r.movieId = "m1"}) = 1
  /\ Cardinality(reviews) = 2

\* C14: catalog ingestion never leaves two stored movies with the same
\* Pexels id, also when ingestion requests with the same video run
\* concurrently.
C14_NoDuplicatePexelsId ==
  \A m \in movies, n \in movies : m.pexelsId = n.pexelsId => m = n

\* the one response of a refused login, whatever the reason
BadLoginResponse ==
  [NoResp EXCEPT !.op = "login", !.status = 401, !.msg = MsgBadLogin]

\* the credentials are those of a stored user
GoodCredentials(email, password) ==
  \E u \in users : u.email = email /\ u.password = hashPassword(password)

\* C15: a login with an email that no user has, or with a password that is
\* not the one of the user the handler read, is answered 401; the response is
\* the same in both cases (status, message, no Set-Cookie), and no step of
\* such a login changes the client's cookie or the users collection.
C15_LoginFailure ==
  [][/\ \A c \in Clients, email \in Emails, password \in {PwGood1, PwGood2} :
          (StepOf(c, "login") /\ UserLogin(c, email, password))
            => /\ ~HasUser(email) => [resp' EXCEPT !.g = NoGhost] = BadLoginResponse
               /\ HasUser(email) => /\ req'[c].op = "login"
                                     /\ req'[c].doc = readByEmail(email)
                                     /\ req'[c].password = password
                                     /\ resp' = resp
               /\ cookie' = cookie
               /\ users' = users
               /\ session' = session
     /\ \A c \in Clients :
          ( /\ UserLogin_compare(c)
            /\ req[c].doc.password # hashPassword(req[c].password) )
            => /\ [resp' EXCEPT !.g = NoGhost] = BadLoginResponse
               /\ cookie' = cookie
               /\ users' = users
               /\ session' = session]_vars

\* a login with a stored email and the wrong password was refused, next to
\* a client that is signed in
C15_Witness ==
  /\ resp.op = "login" /\ resp.status = 401 /\ resp.g.exists
  /\ \E c \in Clients : cookie[c] # NoToken
  /\ Cardinality(users) = 2

\* the token cookie is missing, malformed, wrongly signed, or its lifetime
\* is over at time t
InvalidToken(token, t) ==
  \/ token = NoToken
  \/ token = Garbage
  \/ token.sig # Secret
  \/ t >= token.exp * MsPerSecond

\* the 401 of authenticateToken
Unauthorized(token) ==
  [NoResp EXCEPT !.op = "auth", !.status = 401,
                 !.msg = IF token = NoToken THEN MsgNoToken ELSE MsgBadToken]

\* C16: a request to a guarded review route (create, list-by-user, update,
\* delete) whose token cookie is missing, malformed, wrongly signed or older
\* than its 2-hour lifetime when the request arrives is answered 401 by
\* authenticateToken in the turn of the request; the handler is not entered
\* (nothing is parked at the store, the response holds nothing read from the
\* store) and no collection changes.  A request of these routes is parked at
\* the store only in a turn in which the client holds a valid token, and the
\* reviews collection changes only in the landing of a parked request.
C16_GuardRefuses ==
  [][/\ \A c \in Clients : \A t \in Presentable(c) :
          ( /\ InvalidToken(t, now)
            /\ \/ \E b \in GuardBodies : ReviewCreate_auth(c, t, b)
               \/ \E u \in 1..2 : ReviewGetByUser_auth(c, t, u)
               \/ \E b \in UpdateBodies : ReviewUpdate_auth(c, t, b)
               \/ \E id \in 1..MaxReviews : ReviewDelete_auth(c, t, id) )
            => /\ resp' = Unauthorized(t)
               /\ req' = req
               /\ reviews' = reviews /\ nextReviewId' = nextReviewId
               /\ users' = users /\ cookie' = cookie
     /\ \A c \in Clients :
          ( /\ req[c].op = "none"
            /\ req'[c].op \in {"createReviewCheck", "getByUser",
                                "updateReview", "deleteReview"} )
            => \E t \in Presentable(c) : ~InvalidToken(t, now)
     /\ reviews' # reviews
          => \E c \in Clients :
               /\ req[c].op \in {"createReview", "updateReview", "deleteReview"}
               /\ req'[c] = IdleSlot]_vars

\* a request was refused after the clients' tokens expired, with reviews stored
C16_Witness ==
  /\ resp = Unauthorized(Garbage)
  /\ \A c \in Clients : cookie[c].sig = Secret /\ now >= cookie[c].exp * MsPerSecond
  /\ Cardinality(reviews) = 2

\* the session of client c is Anonymous at time t: it never logged in, it
\* logged out after its last login, or the 2-hour lifetime of its last login
\* is over
Anonymous(c, t) ==
  \/ session[c].state = "Anonymous"
  \/ t >= (session[c].at + LoginJwtSeconds) * MsPerSecond

\* C17: a session is Authenticated only after a successful login and is
\* Anonymous again after logout or after 2 hours: while it is Anonymous, a
\* request to a guarded route with the token of the session is answered 401.
C17_SessionStateMachine ==
  [][\A c \in Clients :
       ( /\ Anonymous(c, now)
         /\ ReviewGetByUser_auth(c, session[c].token, 1) )
         => (req' = req /\ resp'.op = "auth" /\ resp'.status = 401)]_vars

\* C18: every response that clears the token cookie (logout,
\* deleteLoggedUser) does so with the httpOnly, secure and sameSite values
\* that login uses to set it, for every same-site mode of COOKIE_CONTROL.
C18_ClearMatchesLogin ==
  resp.setCookie.kind = "clear"
    => resp.setCookie = clearToken(cookieOptions(env.COOKIE_CONTROL))

\* messages of store and library errors
InternalDetail == {MsgCreateInvalid, MsgCreateDup, MsgDeleteNotFound}

\* C19: no response body holds the message of a store or library error.
C19_NoInternalDetail ==
  resp.msg \notin InternalDetail

\* C20: no handler lets an exception leave it; every error raised in a
\* handler is answered by the handler itself.
C20_NoEscapingException ==
  ~resp.thrown

\* C21: when MONGO_URI or JWT_SECRET is not in the environment, the process
\* exits with a non-zero status at start-up and never listens for requests.
C21_ExitsWithoutConfig ==
  (env.MONGO_URI = Unset \/ env.JWT_SECRET = Unset)
    => /\ proc.phase # "listening"
       /\ proc.exited => proc.status # 0

\* C22: a read by an id that is not in the store is answered 404:
\* getLoggedUser, editLoggedUser and deleteLoggedUser with a valid token
\* whose user has been deleted, and getMovieById with an unknown movie id.
C22_MissingIsNotFound ==
  [][/\ \A c \in Clients :
         ( /\ ~\E u \in users : u.id = req[c].userId
           /\ \/ UserGetLogged(c)
              \/ UserEdit_read(c)
              \/ UserDelete_read(c) )
           => resp'.status = 404
     /\ \A c \in Clients, id \in 1..MaxMovies :
         ( /\ ~\E m \in movies : m.id = id
           /\ MovieGetById(c, id) )
           => resp'.status = 404]_vars

\* C23: in every reachable state every stored review has a rating between
\* 1 and 5 and a comment of 3 to 1000 characters.
C23_ReviewBounds ==
  \A r \in reviews :
    /\ r.rating >= MinRating /\ r.rating <= MaxRating
    /\ Len(r.comment) >= MinCommentLen /\ Len(r.comment) <= MaxCommentLen

\* C24: deleteLoggedUser removes exactly the one user record of the
\* authenticated user and leaves every review and every favorite unchanged,
\* those of the deleted user included.
C24_NoCascade ==
  [][\A c \in Clients :
       (UserDelete_write(c) /\ resp'.status = 200)
         => /\ users' = {u \in users : u.id # req[c].doc.id}
            /\ Cardinality(users') = Cardinality(users) - 1
            /\ reviews' = reviews
            /\ favorites' = favorites]_vars

\* user 1 was deleted; a review and a favorite of user 1 are still stored
C24_Witness ==
  /\ resp.op = "delete" /\ resp.status = 200 /\ resp.userId = 1
  /\ ~\E u \in users : u.id = 1
  /\ \E u \in users : u.id = 2
  /\ \E r \in reviews : r.userId = 1
  /\ \E f \in favorites : f.userId = "1"

\* C25: create favorite with both userId and movieId present answers 201 and
\* adds exactly one favorite, also when one is stored for the same pair; with
\* either field missing it answers 400 and adds nothing.
C25_PermissiveCreate ==
  [][\A c \in Clients, b \in FavoritePairs :
       FavoriteCreate(c, b)
         => IF b.userId # "" /\ b.movieId # ""
            THEN /\ resp'.status = 201
                 /\ Cardinality(favorites') = Cardinality(favorites) + 1
                 /\ \E f \in favorites' \ favorites :
                      /\ f.userId = b.userId /\ f.movieId = b.movieId
                      /\ favorites' = favorites \cup {f}
            ELSE /\ resp'.status = 400
                 /\ favorites' = favorites]_vars

\* a second favorite for a pair that had one was just created
C25_Witness ==
  /\ resp.op = "createFavorite" /\ resp.status = 201
  /\ \E f, h \in favorites :
       f.id # h.id /\ f.userId = h.userId /\ f.movieId = h.movieId

\* C26: a token issued by forgotPassword, presented as the session cookie,
\* is not accepted by authenticateToken: the guarded routes answer it 401.
C26_ResetTokenRefused ==
  [][\A c \in Clients, t \in inbox :
       (UserGetLogged_auth(c, t) \/ ReviewGetByUser_auth(c, t, 1))
         => (req' = req /\ resp'.status = 401)]_vars

\* C27: the write of editLoggedUser leaves the password, the reset token and
\* the reset expiry of the authenticated user, and every other user's record,
\* as they were.
C27_EditTouchesProfileOnly ==
  [][\A c \in Clients :
       UserEdit_write(c)
         => \A u \in users : \E v \in users' :
              /\ v.id = u.id
              /\ v.password = u.password
              /\ v.resetPasswordToken = u.resetPasswordToken
              /\ v.resetPasswordExpires = u.resetPasswordExpires
              /\ (u.id # req[c].doc.id => v = u)]_vars

\* C28: deleteLoggedUser goes on to delete only when the supplied password is
\* the one whose hash it read from the store; with a wrong password it
\* answers 401, the user record stays in the store and the token cookie is
\* not cleared.
C28_DeleteNeedsPassword ==
  [][/\ \A c \in Clients, p \in {PwGood1, PwGood2} :
          (UserDelete_auth(c, cookie[c], p) /\ authenticateToken(cookie[c], now).next)
            => /\ req'[c].op = "deleteRead"
               /\ req'[c].userId = cookie[c].userId
               /\ req'[c].password = p
               /\ users' = users
               /\ cookie' = cookie
     /\ \A c \in Clients :
          (UserDelete_read(c) /\ userRead(req[c].userId) # NoDoc)
            => /\ req'[c].op = "delete"
               /\ req'[c].doc = userRead(req[c].userId)
               /\ req'[c].password = req[c].password
               /\ users' = users
               /\ cookie' = cookie
     /\ \A c \in Clients :
          UserDelete_write(c)
            => IF req[c].doc.password = hashPassword(req[c].password)
               THEN users' = {u \in users : u.id # req[c].doc.id}
               ELSE /\ resp'.status = 401
                    /\ resp'.msg = MsgWrongPassword
                    /\ resp'.setCookie = NoSetCookie
                    /\ req'[c] = IdleSlot
                    /\ users' = users
                    /\ cookie' = cookie
     /\ \A u \in users :
          (~\E v \in users' : v.id = u.id)
            => \E c \in Clients :
                 /\ req[c].op = "delete"
                 /\ req[c].doc.id = u.id
                 /\ req[c].doc.password = hashPassword(req[c].password)]_vars

\* a delete refused for its password after the password was reset: the user
\* is stored with the new hash, the cookie is held
C28_Witness ==
  /\ resp.op = "delete" /\ resp.status = 401 /\ resp.msg = MsgWrongPassword
  /\ \E u \in users : u.id = resp.userId /\ u.password = hashPassword(PwGood2)
  /\ \E c \in Clients :
       /\ cookie[c] # NoToken
       /\ authenticateToken(cookie[c], now).next
       /\ cookie[c].userId = resp.userId

\* the password the account of email e was last given with a 200 / 201: the
\* one of its reset if a resetPassword for e succeeded, else the registered one
LastPassword(e) ==
  IF \E x \in usedResets : x[1] = e THEN PwGood2 ELSE PwGood1

\* C29: after a successful resetPassword with a new password, login with the
\* new password succeeds and login with the previous one is answered 401;
\* a registered account that was never reset logs in with the registered
\* password.
C29_LoginAfterReset ==
  [][/\ \A c \in Clients, e \in Emails, p \in {PwGood1, PwGood2} :
          (UserLogin(c, e, p) /\ HasUser(e))
            => /\ req'[c].op = "login"
               /\ req'[c].password = p
               /\ req'[c].doc.password = hashPassword(LastPassword(e))
     /\ \A c \in Clients :
          UserLogin_compare(c)
            => resp'.status =
                 IF req[c].doc.password = hashPassword(req[c].password)
                 THEN 200 ELSE 401]_vars

\* C30: a user record holds one reset token.  The write of forgotPassword
\* stores its token and expiry over the stored ones, and the e-mail goes out
\* only once they are stored; resetPassword refuses an issued token that is
\* not the stored one, also within that token's own hour, and accepts the
\* stored one when the request arrives within an hour of the token's issue.
C30_LatestTokenOnly ==
  [][/\ \A c \in Clients :
          UserForgot_write(c)
            => /\ \E u \in users' :
                    /\ u.id = req[c].doc.id
                    /\ u.resetPasswordToken = req[c].token
                    /\ u.resetPasswordExpires = req[c].doc.resetPasswordExpires
               /\ inbox' = inbox
     /\ \A c \in Clients :
          (req'[c].op = "forgotMail" /\ req[c].op # "forgotMail")
            => \E u \in users' : u.resetPasswordToken = req'[c].token
     /\ inbox' # inbox
          => \E c \in Clients :
               /\ req[c].op = "forgotMail"
               /\ inbox' = inbox \cup {req[c].token}
               /\ users' = users
     /\ \A c \in Clients, e \in Emails, t \in inbox, b \in LinkBodies :
          UserReset_query(c, e, t, b.password, b.confirmPassword)
            => /\ req'[c].op = "resetRead"
               /\ req'[c].email = e /\ req'[c].token = t
               /\ req'[c].at = now
               /\ users' = users
     /\ \A c \in Clients :
          ( /\ UserReset_read(c)
            /\ HasUser(req[c].email)
            /\ req[c].token \in inbox )
            => IF readByEmail(req[c].email).resetPasswordToken # req[c].token
               THEN /\ resp'.status = 400
                    /\ resp'.msg = MsgBadToken
                    /\ req'[c] = IdleSlot
               ELSE (/\ req[c].at < req[c].token.iat * MsPerSecond + ResetLifetimeMs
                     /\ req[c].password = req[c].confirmPassword)
                      => /\ req'[c].op = "reset"
                         /\ req'[c].doc.password = hashPassword(req[c].password)
     /\ \A c \in Clients :
          UserReset_write(c)
            => /\ resp'.status = 200
               /\ \E u \in users' :
                    /\ u.id = req[c].doc.id
                    /\ u.password = req[c].doc.password
                    /\ u.resetPasswordToken = NoToken]_vars

\* an issued token was refused although every issued token is within its own
\* hour: the stored token is another issued one
C30_Witness ==
  /\ resp.op = "reset" /\ resp.status = 400 /\ resp.msg = MsgBadToken
  /\ resp.g.exists /\ ~resp.g.tokenStored
  /\ Cardinality(inbox) >= 2
  /\ \A t \in inbox : jwtVerify(t, Secret, now)
  /\ \E u \in users : u.resetPasswordToken \in inbox

====
